---- MODULE Spec2Model ----
(***************************************************************************)
(* Model of the plugin list reorder engine ("rearrange-plugins", class     *)
(* Sorter with its Store helper) of src/extensions/xml-tag-creator.js,     *)
(* lines 427-612.  The host page, the browser's layout and the pointer are *)
(* the environment: the host inserts, removes and re-renders menus, the    *)
(* user presses, moves and releases a pointer.                             *)
(*                                                                         *)
(* The second half of the module models the other scripts of the           *)
(* repository, each under a specification of its own: the dynamic loader   *)
(* (src/all-extensions.js), the embedded bundle                            *)
(* (src/embedded-extensions.js), quote reply, the auto-thought toggle and  *)
(* the XML tag creator (src/extensions).                                   *)
(***************************************************************************)
EXTENDS Integers, Sequences, FiniteSets, TLC

(***************************************************************************)
(* Bounds of the model.                                                    *)
(***************************************************************************)
MaxPending == 2        \* mutation records collected in one observer batch
MaxPlaceholders == 2   \* placeholder elements created in one behaviour
MaxSaved == 3          \* length of the stored arrays drawn at start-up
MaxParam == 2          \* comma-separated pieces in one query parameter
MaxFaults == 2         \* script requests the network fails or stalls in one run
MaxLabels == 2         \* quote labels above the chat input at one time
MaxEvents == 4         \* Enter / click events on the chat input in one behaviour
MaxTagLen == 4         \* characters of the strings handed to sanitize
MaxSettingLen == 2     \* characters of the strings saved as settings
MaxIcons == 2          \* link[rel="icon"] elements in the head at one time
MaxFaviconTimers == 2  \* applyCustomFavicon timers pending at one time

(***************************************************************************)
(* Program constants.                                                      *)
(***************************************************************************)
edgeDistance == 40     \* CONFIG.DRAG.edgeDistance
PhMargin == 4          \* .tm-plugin-reorder-placeholder{margin:4px 0}
PhMinHeight == 36      \* .tm-plugin-reorder-placeholder{min-height:36px}

(***************************************************************************)
(* The host page: two menus.  L1 holds three named rows; L2 holds one row  *)
(* that lacks the text wrapper the selectors look for.  Rows are the items *)
(* 1..4; placeholder number n is the item -n.                              *)
(***************************************************************************)
Lists == {"L1", "L2"}
Rows == 1..4
Names == {"A", "B", "C", "X"}

IsRow(i) == i > 0
IsPh(i) == i < 0

HomeRows(l) == IF l = "L1" THEN {1, 2, 3} ELSE {4}
ListOf(r) == IF r \in HomeRows("L1") THEN "L1" ELSE "L2"

\* does the row contain an element matching CONFIG.SELECTORS.wrap (which
\* carries the class .truncate)
RowHasWrap(r) == r # 4

\* textContent of the row's first .truncate element, as the host rendered it
RowText(r) ==
  CASE r = 1 -> "A"
    [] r = 2 -> " B "
    [] r = 3 -> "C"
    [] OTHER -> ""

\* String.prototype.trim on the texts of this page
Trim(t) ==
  CASE t = " B " -> "B"
    [] t = " plugin-export-chats" -> "plugin-export-chats"
    [] t = "gpt " -> "gpt"
    [] t = " quote-reply " -> "quote-reply"
    [] OTHER -> t

\* r.querySelector('.truncate')?.textContent.trim(); "" stands for every
\* falsy outcome (undefined when there is no .truncate element, or '')
RowName(r) == IF RowHasWrap(r) THEN Trim(RowText(r)) ELSE ""

\* layout of the host page (px); the handle sits at the row's vertical centre
RowH(r) == 60
ListTop(l) == 100
ClientHeight(l) == 120
GrabOffset(r) == RowH(r) \div 2
PointerYs == {90, 110, 130, 140, 150, 160, 170, 190, 210}

StyleProps == {"width", "position", "zIndex", "left", "top", "pointerEvents"}

NoDrag == [row |-> 0, list |-> "none", ph |-> 0, offY |-> 0]

Max(a, b) == IF a > b THEN a ELSE b
Min(a, b) == IF a < b THEN a ELSE b

Range(s) == {s[i] : i \in 1..Len(s)}
IndexOf(s, x) == CHOOSE i \in 1..Len(s) : s[i] = x
Remove(s, x) == SelectSeq(s, LAMBDA i : i # x)
InsertAt(s, k, x) == SubSeq(s, 1, k - 1) \o <<x>> \o SubSeq(s, k, Len(s))

RECURSIVE SeqsUpTo(_, _)
SeqsUpTo(S, n) ==
  IF n = 0 THEN {<<>>}
  ELSE LET shorter == SeqsUpTo(S, n - 1)
       IN shorter \cup {Append(q, x) : q \in shorter, x \in S}

Perms(S) == {q \in [1..Cardinality(S) -> S] : Range(q) = S}

VARIABLES
  stored,        \* localStorage value under CONFIG.STORAGE_KEY
  inDoc,         \* list elements attached to the document
  rendered,      \* rendered[l]: the rows of list l in the order the host rendered them
  children,      \* children[l]: child elements of list l, in DOM order
  sortAttach,    \* list.dataset.sortAttach is set
  scrollTop,     \* list.scrollTop
  hasHandle,     \* row.dataset.hasHandle is set
  handles,       \* handle elements (each with its onpointerdown) in the row
  style,         \* inline style properties set on the row
  rowTop,        \* row.style.top of a row in fixed position
  dragging,      \* row carries CONFIG.CLASSES.dragging
  phHeight,      \* style.height of each placeholder created so far
  drag,          \* this.drag
  onpointermove, \* document.onpointermove is installed
  onpointerup,   \* document.onpointerup is installed
  pending,       \* added nodes of the mutation records not yet delivered
  applied,       \* completed runs of #applySaved per list element
  escaped        \* an exception has left the observer callback

\* the page's query string, read by the loader and by the bundle
VARIABLES
  location_search   \* window.location.search: the raw value of each parameter

\* src/all-extensions.js: ExtensionLoader
VARIABLES
  params,            \* this.params
  loadedExtensions,  \* this.loadedExtensions
  failedExtensions,  \* this.failedExtensions
  extensions,        \* loadAll: const extensions
  position,          \* loadAll: index of the extension whose load is awaited
  results,           \* loadAll: const results
  finished,          \* loadAll has returned
  request            \* per extension: its script element, timer and promise

\* src/embedded-extensions.js: the bundle
VARIABLES
  throws,         \* the registered extensions whose body throws when executed
  executed,       \* the bodies safeExecute has called, in order
  bundleResults,  \* loadBundle: const results
  bundleDone      \* loadBundle has returned

\* src/extensions/quote-reply.js: QuoteReply, the chat input and the host
VARIABLES
  labels,        \* the quote labels above the chat input: their full quotes
  textbox,       \* textArea.value, as its lines
  isProcessing,  \* this.state.isProcessing
  sendTimer,     \* processAndSend waits for its 50 ms timer
  sends,         \* how often the host's own send was triggered
  intercepted,   \* how many Enter / click events the handlers took over
  textArea,      \* the page holds the chat input (CONFIG.SELECTORS.textbox)
  runs           \* processAndSend runs past line 243 that have not returned

\* src/extensions/auto-thought-toggle.js: AutoThoughtToggle and the chat
VARIABLES
  thoughtStored,  \* localStorage value under autoThoughtToggle_enabled
  enabled,        \* this.enabled
  blocks,         \* the details elements of the responses
  debounce,       \* this._pending: the 100 ms timer is armed
  clicked,        \* the blocks whose summary the user has clicked
  timers,         \* 100 ms timers of the observer callback not yet fired
  dirty,          \* a mutation batch was observed and no pass has started since
  pass            \* flips with every auto-toggle pass

\* src/extensions/xml-tag-creator.js: XmlTagCreator
VARIABLES
  recentStored,  \* localStorage value under xml_tag_creator_recent_tags
  recent,        \* this.state.recent
  lastInserted,  \* the tag of the last insert, <<>> after a Clear
  tagInput,      \* the string handed to sanitize
  trimEdges,     \* sanitize's second argument
  clean,         \* what sanitize returned
  sanitized      \* how often sanitize has been applied to the input

\* src/SINGLE-FILE-USAGE.md, lines 233-1652: the UI tweaks script
VARIABLES
  tweakStore,      \* localStorage under the tweak_ keys
  tweakSaved,      \* per key, the value of the last saveSetting call
  icons,           \* href of every link[rel="icon"] of the document, in order
  faviconObserver, \* faviconObserver: is it observing; its record queue
  faviconTimers,   \* setTimeout(() => applyCustomFavicon(), 0) not yet fired
  faviconCalls     \* flips with every applyCustomFavicon call

sorterVars == <<stored, inDoc, rendered, children, sortAttach, scrollTop, hasHandle,
                handles, style, rowTop, dragging, phHeight, drag, onpointermove,
                onpointerup, pending, applied, escaped>>

loaderVars == <<params, loadedExtensions, failedExtensions, extensions, position,
                results, finished, request>>

bundleVars == <<throws, executed, bundleResults, bundleDone>>

quoteVars == <<labels, textbox, isProcessing, sendTimer, sends, intercepted, textArea, runs>>

thoughtVars == <<thoughtStored, enabled, blocks, debounce, clicked, timers, dirty, pass>>

tagVars == <<recentStored, recent, lastInserted, tagInput, trimEdges, clean, sanitized>>

tweakVars == <<tweakStore, tweakSaved, icons, faviconObserver, faviconTimers, faviconCalls>>

besideSorter == <<location_search, loaderVars, bundleVars, quoteVars, thoughtVars, tagVars,
                  tweakVars>>

\* what the actions of one script leave alone
exceptLoader == <<sorterVars, location_search, bundleVars, quoteVars, thoughtVars, tagVars,
                  tweakVars>>
exceptBundle == <<sorterVars, location_search, loaderVars, quoteVars, thoughtVars, tagVars,
                  tweakVars>>
exceptQuote == <<sorterVars, location_search, loaderVars, bundleVars, thoughtVars, tagVars,
                  tweakVars>>
exceptThought == <<sorterVars, location_search, loaderVars, bundleVars, quoteVars, tagVars,
                  tweakVars>>
exceptTags == <<sorterVars, location_search, loaderVars, bundleVars, quoteVars, thoughtVars,
                  tweakVars>>
exceptTweaks == <<sorterVars, location_search, loaderVars, bundleVars, quoteVars, thoughtVars,
                  tagVars>>

vars == <<sorterVars, besideSorter>>

(***************************************************************************)
(* Store: the localStorage value and its JSON conversions.  A raw value is *)
(* missing, the empty string, a text that is not JSON, or the JSON text of *)
(* a value; a value is null, a number, a string of n characters, an object *)
(* whose "length" property is n (0: absent or falsy), or an array.         *)
(***************************************************************************)
Val(t, items, n) == [t |-> t, items |-> items, n |-> n]
ArrayVal(items) == Val("array", items, Len(items))
Raw(kind, val) == [kind |-> kind, val |-> val]

JSON_stringify(o) == Raw("json", ArrayVal(o))

\* JSON.parse(text): throws on a text that is not JSON
JSON_parse(raw) ==
  IF raw.kind = "json" THEN [threw |-> FALSE, val |-> raw.val]
  ELSE [threw |-> TRUE, val |-> Val("null", <<>>, 0)]

\* Store.get: JSON.parse(localStorage.getItem(key) || '[]')
Store_get(raw) ==
  IF raw.kind \in {"missing", "empty"}
  THEN JSON_parse(JSON_stringify(<<>>))
  ELSE JSON_parse(raw)

\* Store.save: localStorage.setItem(key, JSON.stringify(o))
Store_save(o) == JSON_stringify(o)

(***************************************************************************)
(* Browser layout.  A row in fixed position is out of the flow; the        *)
(* placeholder takes its style.height (at least its min-height) plus its   *)
(* two margins; an element outside the document has an all-zero rectangle. *)
(***************************************************************************)
Rect(top, height) == [top |-> top, bottom |-> top + height, height |-> height]

IsFixed(st, r) == "position" \in st[r]

Footprint(st, phs, i) ==
  IF IsPh(i) THEN Max(phs[-i], PhMinHeight) + 2 * PhMargin
  ELSE IF IsFixed(st, i) THEN 0
  ELSE RowH(i)

RECURSIVE FlowHeight(_, _, _)
FlowHeight(ch, st, phs) ==
  IF ch = <<>> THEN 0
  ELSE Footprint(st, phs, Head(ch)) + FlowHeight(Tail(ch), st, phs)

\* largest value list.scrollTop can hold
MaxScroll(l, doc, ch, st, phs) ==
  IF l \in doc THEN Max(0, FlowHeight(ch, st, phs) - ClientHeight(l)) ELSE 0

\* what the browser keeps of an assignment list.scrollTop = v
SetScrollTop(v, maxScroll) == Max(0, Min(v, maxScroll))

\* list.getBoundingClientRect()
ListRect(l, doc) ==
  IF l \in doc THEN Rect(ListTop(l), ClientHeight(l)) ELSE Rect(0, 0)

\* row.getBoundingClientRect() for a row of list l
RowRect(l, r, doc, ch, scroll, st, tops, phs) ==
  IF l \notin doc THEN Rect(0, 0)
  ELSE IF IsFixed(st, r) THEN Rect(tops[r], RowH(r))
  ELSE Rect(ListTop(l) - scroll
              + FlowHeight(SubSeq(ch, 1, IndexOf(ch, r) - 1), st, phs),
            RowH(r))

\* list.querySelectorAll(CONFIG.SELECTORS.row), in document order
QueryRows(ch) == SelectSeq(ch, IsRow)

(***************************************************************************)
(* Sorter.#applySaved (lines 599-608)                                      *)
(***************************************************************************)
\* mutant: map.get(n) || (the first row) in place of map.get(n)
MapGet_Fallback(ch, n) ==
  LET rows == QueryRows(ch)
      hits == {i \in 1..Len(rows) : RowName(rows[i]) # "" /\ RowName(rows[i]) = n}
  IN IF hits = {} THEN (IF rows = <<>> THEN 0 ELSE rows[1])
     ELSE rows[CHOOSE i \in hits : \A j \in hits : j <= i]

\* the Map built at lines 602-606: a later row of the same name replaces an
\* earlier one; 0 stands for undefined
MapGet(ch, n) ==
  LET rows == QueryRows(ch)
      hits == {i \in 1..Len(rows) : RowName(rows[i]) # "" /\ RowName(rows[i]) = n}
  IN IF hits = {} THEN 0
     ELSE rows[CHOOSE i \in hits : \A j \in hits : j <= i]

\* mutant: list.prepend(el) in place of list.appendChild(el)
AppendChild_Prepend(ch, el) == <<el>> \o Remove(ch, el)

\* list.appendChild(el): el moves to the end of the list
AppendChild(ch, el) == Append(Remove(ch, el), el)

\* saved.forEach(n=>{ const el=map.get(n); if(el) list.appendChild(el); })
RECURSIVE ForEachSaved(_, _, _)
ForEachSaved(ch, map, saved) ==
  IF saved = <<>> THEN ch
  ELSE LET el == MapGet(map, Head(saved))
       IN ForEachSaved(IF el # 0 THEN AppendChild(ch, el) ELSE ch,
                       map, Tail(saved))

\* the outcome of #applySaved on a list with children ch: the new children,
\* or an exception (JSON.parse, null.length, forEach of a value that is no
\* array) that leaves the children as they are
Sorter_applySaved(ch, raw) ==
  LET got == Store_get(raw)
      saved == got.val
  IN IF got.threw \/ saved.t = "null" THEN [threw |-> TRUE, children |-> ch]
     ELSE IF saved.n = 0 THEN [threw |-> FALSE, children |-> ch]
     ELSE IF saved.t # "array" THEN [threw |-> TRUE, children |-> ch]
     ELSE [threw |-> FALSE, children |-> ForEachSaved(ch, ch, saved.items)]

(***************************************************************************)
(* Sorter.#grip (lines 515-527), applied to the rows of a list in order.   *)
(* s is the part of the page the observer callback works on.               *)
(***************************************************************************)
Sorter_grip(s, row) ==
  IF s.hasHandle[row] THEN s
  ELSE [s EXCEPT !.hasHandle[row] = TRUE,
                 !.handles[row] = IF RowHasWrap(row) THEN @ + 1 ELSE @]

RECURSIVE GripAll(_, _)
GripAll(s, rows) ==
  IF rows = <<>> THEN s
  ELSE GripAll(Sorter_grip(s, Head(rows)), Tail(rows))

(***************************************************************************)
(* Sorter.#init (lines 507-512)                                            *)
(***************************************************************************)
Sorter_init(s, list, raw) ==
  LET flagged == [s EXCEPT !.sortAttach[list] = TRUE,
                           !.inits = @ \cup {list}]
      out == Sorter_applySaved(s.children[list], raw)
  IN IF out.threw THEN [flagged EXCEPT !.threw = TRUE]
     ELSE GripAll([flagged EXCEPT !.children[list] = out.children,
                                  !.applied[list] = @ + 1],
                  QueryRows(out.children))

(***************************************************************************)
(* Sorter.#watch (lines 495-504): the observer callback over one batch of  *)
(* added nodes.  A node is a text node, an element holding the lists       *)
(* node.lists below it, or a list element itself.                          *)
(***************************************************************************)
Node(kind, lists) == [kind |-> kind, lists |-> lists]

\* n.querySelector?.(CONFIG.SELECTORS.list): the first matching descendant
QuerySelectorList(n) ==
  IF n.kind = "element" /\ n.lists # <<>> THEN Head(n.lists) ELSE "none"

RECURSIVE Sorter_watch(_, _, _)
Sorter_watch(s, nodes, raw) ==
  IF nodes = <<>> THEN s
  ELSE LET list == QuerySelectorList(Head(nodes))
       IN IF list # "none" /\ ~s.sortAttach[list]
          THEN LET t == Sorter_init(s, list, raw)
               IN IF t.threw THEN t ELSE Sorter_watch(t, Tail(nodes), raw)
          ELSE Sorter_watch(s, Tail(nodes), raw)

(***************************************************************************)
(* Sorter.#move (lines 556-577), in its three parts.                       *)
(***************************************************************************)
\* mutant: the two comparisons take the edge itself into the margins
AutoScroll_Inclusive(y, r, scroll, edge, maxScroll) ==
  IF y <= r.top + edge THEN Max(0, Min(scroll - edge, maxScroll))
  ELSE IF y >= r.bottom - edge THEN Max(0, Min(scroll + edge, maxScroll))
  ELSE scroll

\* lines 562-564: auto-scroll near the top or the bottom of the list
AutoScroll(y, r, scroll, edge, maxScroll) ==
  IF y < r.top + edge THEN SetScrollTop(scroll - edge, maxScroll)
  ELSE IF y > r.bottom - edge THEN SetScrollTop(scroll + edge, maxScroll)
  ELSE scroll

\* lines 567-571: the first row other than the dragged one whose rectangle
\* holds the pointer; 0 when .some() finds none
HitRow(y, row, l, doc, ch, scroll, st, tops, phs) ==
  LET items == SelectSeq(QueryRows(ch), LAMBDA i : i # row)
      hits == {k \in 1..Len(items) :
                 LET ir == RowRect(l, items[k], doc, ch, scroll, st, tops, phs)
                 IN y > ir.top /\ y < ir.bottom}
  IN IF hits = {} THEN 0
     ELSE items[CHOOSE k \in hits : \A j \in hits : k <= j]

\* a test that counts the midpoint itself as the upper half
InUpperHalf_Inclusive(y, ir) == 2 * y <= 2 * ir.top + ir.height

\* line 572: e.clientY < ir.top + ir.height/2
InUpperHalf(y, ir) == 2 * y < 2 * ir.top + ir.height

\* item.before(ph) / item.after(ph)
PlaceBefore(ch, item, ph) ==
  LET rest == Remove(ch, ph) IN InsertAt(rest, IndexOf(rest, item), ph)
PlaceAfter(ch, item, ph) ==
  LET rest == Remove(ch, ph) IN InsertAt(rest, IndexOf(rest, item) + 1, ph)

(***************************************************************************)
(* Sorter.#up and Sorter.#save (lines 580-596)                             *)
(***************************************************************************)
\* mutant: ph.remove() in place of ph.replaceWith(row)
ReplaceWith_Remove(ch, ph, row) == Remove(ch, ph)

\* ph.replaceWith(row): the row takes the placeholder's place
ReplaceWith(ch, ph, row) ==
  IF ph \in Range(ch)
  THEN LET rest == Remove(ch, row)
       IN [i \in 1..Len(rest) |-> IF rest[i] = ph THEN row ELSE rest[i]]
  ELSE ch

\* lines 592-594: the names of the rows top to bottom, falsy ones dropped
OrderOf(ch) ==
  LET rows == QueryRows(ch)
      names == [i \in 1..Len(rows) |-> RowName(rows[i])]
  IN SelectSeq(names, LAMBDA n : n # "")

\* a #save that writes nothing
Sorter_save_Nothing(ch) == Raw("missing", Val("null", <<>>, 0))

\* Sorter.#save (lines 591-596)
Sorter_save(ch) == Store_save(OrderOf(ch))

\* the inline styles #up resets (line 584)
ClearedOnUp == {"position", "left", "top", "width", "pointerEvents"}

(***************************************************************************)
(* The state after construction (lines 473-478, 611): nothing is attached, *)
(* whatever lists the page already shows and whatever the storage holds.   *)
(***************************************************************************)
HostOrder(l) == IF l = "L1" THEN <<1, 2, 3>> ELSE <<4>>

NullVal == Val("null", <<>>, 0)

StoredAtStart ==
  {Raw("missing", NullVal), Raw("empty", NullVal), Raw("invalid", NullVal),
   Raw("json", NullVal), Raw("json", Val("number", <<>>, 0)),
   Raw("json", Val("string", <<>>, 3)), Raw("json", Val("object", <<>>, 0))}
  \cup {JSON_stringify(q) : q \in SeqsUpTo(Names, MaxSaved)}

SorterInit ==
  /\ stored \in StoredAtStart
  /\ inDoc \in SUBSET Lists
  /\ rendered = [l \in Lists |-> HostOrder(l)]
  /\ children = [l \in Lists |-> HostOrder(l)]
  /\ sortAttach = [l \in Lists |-> FALSE]
  /\ scrollTop = [l \in Lists |-> 0]
  /\ hasHandle = [r \in Rows |-> FALSE]
  /\ handles = [r \in Rows |-> 0]
  /\ style = [r \in Rows |-> {}]
  /\ rowTop = [r \in Rows |-> 0]
  /\ dragging = [r \in Rows |-> FALSE]
  /\ phHeight = <<>>
  /\ drag = NoDrag
  /\ onpointermove = FALSE
  /\ onpointerup = FALSE
  /\ pending = <<>>
  /\ applied = [l \in Lists |-> 0]
  /\ escaped = FALSE

\* the other scripts are not installed: their state keeps these values
Absent == [given |-> FALSE, pieces |-> <<>>]

NoSearch == [only |-> Absent, exclude |-> Absent, enable |-> Absent, disable |-> Absent]

LoaderIdle ==
  /\ params = [only |-> Absent, exclude |-> <<>>]
  /\ loadedExtensions = {}
  /\ failedExtensions = {}
  /\ extensions = <<>>
  /\ position = 0
  /\ results = [loaded |-> <<>>, failed |-> <<>>, skipped |-> <<>>]
  /\ finished = FALSE
  /\ request = <<>>

BundleIdle ==
  /\ throws = {}
  /\ executed = <<>>
  /\ bundleResults = [loaded |-> <<>>, failed |-> <<>>, skipped |-> <<>>]
  /\ bundleDone = FALSE

QuoteIdle ==
  /\ labels = <<>>
  /\ textbox = <<>>
  /\ isProcessing = FALSE
  /\ sendTimer = FALSE
  /\ sends = 0
  /\ intercepted = 0
  /\ textArea = TRUE
  /\ runs = 0

ThoughtIdle ==
  /\ thoughtStored = "missing"
  /\ enabled = TRUE
  /\ blocks = <<>>
  /\ debounce = FALSE
  /\ clicked = {}
  /\ timers = 0
  /\ dirty = FALSE
  /\ pass = FALSE

TagsIdle ==
  /\ recentStored = Raw("missing", NullVal)
  /\ recent = <<>>
  /\ lastInserted = <<>>
  /\ tagInput = <<>>
  /\ trimEdges = TRUE
  /\ clean = <<>>
  /\ sanitized = 0

TweaksIdle ==
  /\ tweakStore = <<>>
  /\ tweakSaved = <<>>
  /\ icons = <<>>
  /\ faviconObserver = [observing |-> FALSE, records |-> <<>>]
  /\ faviconTimers = 0
  /\ faviconCalls = FALSE

NotInstalled ==
  /\ location_search = NoSearch
  /\ TweaksIdle
  /\ LoaderIdle
  /\ BundleIdle
  /\ QuoteIdle
  /\ ThoughtIdle
  /\ TagsIdle

Init ==
  /\ SorterInit
  /\ NotInstalled

\* the engine before any menu was shown and any order stored
SorterIdle ==
  /\ SorterInit
  /\ stored = Raw("missing", NullVal)
  /\ inDoc = {}

(***************************************************************************)
(* The host page.                                                          *)
(***************************************************************************)
pageVars == <<rendered, children, sortAttach, hasHandle, handles, applied>>
dragVars == <<style, rowTop, dragging, phHeight, drag, onpointermove,
              onpointerup>>

InsertableNodes ==
  {Node("text", <<>>), Node("element", <<"L1">>), Node("element", <<"L2">>),
   Node("element", <<"L1", "L2">>), Node("list", <<"L1">>)}

\* the host adds (or moves) a node into the document; the observer gets a
\* mutation record for it
HostInsert(n) ==
  /\ Len(pending) < MaxPending
  /\ inDoc' = inDoc \cup Range(n.lists)
  /\ pending' = Append(pending, n)
  /\ UNCHANGED <<besideSorter, stored, scrollTop, escaped, pageVars, dragVars>>

\* the host takes a list out of the document (the menu closes)
HostRemove(l) ==
  /\ l \in inDoc
  /\ inDoc' = inDoc \ {l}
  /\ scrollTop' = [scrollTop EXCEPT ![l] = 0]
  /\ UNCHANGED <<besideSorter, stored, pending, escaped, pageVars, dragVars>>

\* the host renders the menu anew: a fresh list element with fresh rows, in
\* the order the host chooses, replaces one that left the document
HostRender(l, order) ==
  /\ l \notin inDoc
  /\ drag.list # l
  /\ pending = <<>>
  /\ rendered' = [rendered EXCEPT ![l] = order]
  /\ children' = [children EXCEPT ![l] = order]
  /\ sortAttach' = [sortAttach EXCEPT ![l] = FALSE]
  /\ applied' = [applied EXCEPT ![l] = 0]
  /\ hasHandle' = [r \in Rows |-> IF r \in HomeRows(l) THEN FALSE ELSE hasHandle[r]]
  /\ handles' = [r \in Rows |-> IF r \in HomeRows(l) THEN 0 ELSE handles[r]]
  /\ style' = [r \in Rows |-> IF r \in HomeRows(l) THEN {} ELSE style[r]]
  /\ rowTop' = [r \in Rows |-> IF r \in HomeRows(l) THEN 0 ELSE rowTop[r]]
  /\ dragging' = [r \in Rows |-> IF r \in HomeRows(l) THEN FALSE ELSE dragging[r]]
  /\ UNCHANGED <<besideSorter, stored, inDoc, scrollTop, pending, escaped, phHeight, drag,
                 onpointermove, onpointerup>>

(***************************************************************************)
(* The mutation observer's callback (lines 496-502) on the batch collected *)
(* so far.  An exception of #init ends the callback: the rest of the batch *)
(* is not looked at.                                                       *)
(***************************************************************************)
ObserverCallback ==
  /\ pending # <<>>
  /\ LET s == Sorter_watch([children |-> children, sortAttach |-> sortAttach,
                            hasHandle |-> hasHandle, handles |-> handles,
                            applied |-> applied, inits |-> {}, threw |-> FALSE],
                           pending, stored)
     IN /\ children' = s.children
        /\ sortAttach' = s.sortAttach
        /\ hasHandle' = s.hasHandle
        /\ handles' = s.handles
        /\ applied' = s.applied
        /\ escaped' = (escaped \/ s.threw)
  /\ pending' = <<>>
  /\ UNCHANGED <<besideSorter, stored, inDoc, rendered, scrollTop, dragVars>>

(***************************************************************************)
(* The pointer.  Handlers run between tasks, when no mutation record is    *)
(* waiting for the observer.                                               *)
(***************************************************************************)
\* Sorter.#down (lines 530-553): pointer-down on the handle of row, which
\* must be in the page and must take pointer events
Down(row) ==
  LET list == ListOf(row)
      rect == RowRect(list, row, inDoc, children[list], scrollTop[list],
                      style, rowTop, phHeight)
      ph == -(Len(phHeight) + 1)
  IN /\ pending = <<>>
     /\ list \in inDoc
     /\ handles[row] > 0
     /\ "pointerEvents" \notin style[row]
     /\ Len(phHeight) < MaxPlaceholders
     /\ phHeight' = Append(phHeight, rect.height)
     /\ children' = [children EXCEPT
                       ![list] = InsertAt(@, IndexOf(@, row), ph)]
     /\ style' = [style EXCEPT ![row] = StyleProps]
     /\ rowTop' = [rowTop EXCEPT ![row] = rect.top]
     /\ dragging' = [dragging EXCEPT ![row] = TRUE]
     /\ drag' = [row |-> row, list |-> list, ph |-> ph,
                 offY |-> GrabOffset(row)]
     /\ onpointermove' = TRUE
     /\ onpointerup' = TRUE
     /\ UNCHANGED <<besideSorter, stored, inDoc, rendered, scrollTop, pending, escaped,
                    sortAttach, hasHandle, handles, applied>>

\* Sorter.#move: document.onpointermove with the pointer at height y
Move(y) ==
  LET row == drag.row
      list == drag.list
      ch == children[list]
      scroll == AutoScroll(y, ListRect(list, inDoc), scrollTop[list], edgeDistance,
                           MaxScroll(list, inDoc, ch, style, phHeight))
      tops == [rowTop EXCEPT ![row] = y - drag.offY]
      st == [style EXCEPT ![row] = @ \cup {"left", "top"}]
      item == HitRow(y, row, list, inDoc, ch, scroll, st, tops, phHeight)
  IN /\ onpointermove
     /\ pending = <<>>
     /\ style' = st
     /\ rowTop' = tops
     /\ scrollTop' = [scrollTop EXCEPT ![list] = scroll]
     /\ children' = [children EXCEPT ![list] =
          IF item = 0 THEN ch
          ELSE IF InUpperHalf(y, RowRect(list, item, inDoc, ch, scroll, st,
                                         tops, phHeight))
               THEN PlaceBefore(ch, item, drag.ph)
               ELSE PlaceAfter(ch, item, drag.ph)]
     /\ UNCHANGED <<besideSorter, stored, inDoc, rendered, pending, escaped, sortAttach,
                    hasHandle, handles, applied, dragging, phHeight, drag,
                    onpointermove, onpointerup>>

\* Sorter.#up: document.onpointerup
Up ==
  LET row == drag.row
      list == drag.list
      ch == ReplaceWith(children[list], drag.ph, row)
      st == [style EXCEPT ![row] = @ \ ClearedOnUp]
  IN /\ onpointerup
     /\ pending = <<>>
     /\ children' = [children EXCEPT ![list] = ch]
     /\ dragging' = [dragging EXCEPT ![row] = FALSE]
     /\ style' = st
     /\ rowTop' = [rowTop EXCEPT ![row] = 0]
     /\ scrollTop' = [scrollTop EXCEPT ![list] =
                        SetScrollTop(@, MaxScroll(list, inDoc, ch, st, phHeight))]
     /\ stored' = Sorter_save(ch)
     /\ onpointermove' = FALSE
     /\ onpointerup' = FALSE
     /\ drag' = NoDrag
     /\ UNCHANGED <<besideSorter, inDoc, rendered, pending, escaped, sortAttach, hasHandle,
                    handles, applied, phHeight>>

Next ==
  \/ \E n \in InsertableNodes : HostInsert(n)
  \/ \E l \in Lists : HostRemove(l)
  \/ \E l \in Lists : \E order \in Perms(HomeRows(l)) : HostRender(l, order)
  \/ ObserverCallback
  \/ \E row \in Rows : Down(row)
  \/ \E y \in PointerYs : Move(y)
  \/ Up

\* the whole engine in the whole environment
Spec == Init /\ [][Next]_vars

(***************************************************************************)
(* The engine while the host page changes and no pointer is down: every    *)
(* stored value, every kind of inserted node, both menus.                  *)
(***************************************************************************)
NextAttach ==
  \/ \E n \in InsertableNodes : HostInsert(n)
  \/ \E l \in Lists : HostRemove(l)
  \/ \E l \in Lists : \E order \in Perms(HomeRows(l)) : HostRender(l, order)
  \/ ObserverCallback

SpecAttach == Init /\ [][NextAttach]_vars

(***************************************************************************)
(* The engine under the pointer: the host opens the menu L1 once, nothing  *)
(* is stored yet, and pointer events arrive in any order the handlers      *)
(* allow (a second pointer may go down while the first is still held).     *)
(***************************************************************************)
InitDrag ==
  /\ Init
  /\ stored = Raw("missing", NullVal)
  /\ inDoc = {}

OpenMenu ==
  /\ "L1" \notin inDoc
  /\ HostInsert(Node("element", <<"L1">>))

CloseMenu == HostRemove("L1")

RenderMenu == \E order \in Perms(HomeRows("L1")) : HostRender("L1", order)

NextDrag ==
  \/ OpenMenu
  \/ CloseMenu
  \/ RenderMenu
  \/ ObserverCallback
  \/ \E row \in Rows : Down(row)
  \/ \E y \in PointerYs : Move(y)
  \/ Up

SpecDrag == InitDrag /\ [][NextDrag]_vars

(***************************************************************************)
(* Vocabulary of the properties.                                           *)
(***************************************************************************)
\* the stored value is the JSON text of an array: a Saved Order
IsSavedOrder(raw) == raw.kind = "json" /\ raw.val.t = "array"
SavedItems(raw) == raw.val.items

\* x comes before y in the sequence q
Precedes(q, x, y) ==
  \E i, j \in 1..Len(q) : i < j /\ q[i] = x /\ q[j] = y

NoRepeats(q) == \A i, j \in 1..Len(q) : q[i] = q[j] => i = j

\* list l has been through #init to its end
Attached(l) == sortAttach[l] /\ applied[l] = 1

\* the row has had its one run of #grip: flagged, and carrying one handle
\* (with its one pointer-down listener) in its text wrapper, if it has one
Gripped(r) ==
  hasHandle[r] /\ handles[r] = (IF RowHasWrap(r) THEN 1 ELSE 0)

\* the rows of q whose names occur in S, in the order of S, and the others
NamedIn(S, r) == \E i \in 1..Len(S) : S[i] = RowName(r)
RECURSIVE InOrderOf(_, _)
InOrderOf(S, q) ==
  IF S = <<>> THEN <<>>
  ELSE SelectSeq(q, LAMBDA r : RowName(r) = Head(S))
         \o InOrderOf(SelectSeq(Tail(S), LAMBDA n : n # Head(S)), q)
NotNamedIn(S, q) == SelectSeq(q, LAMBDA r : ~NamedIn(S, r))

(***************************************************************************)
(* C1  Restore with a partial match: after a list is attached while a      *)
(* Saved Order S is stored, its rows are the rows named in S, in S order,  *)
(* followed by the rows not named in S in their rendered order (stored     *)
(* ["X","A"] leaves the rows as rendered).  The code moves every matched   *)
(* row to the END of the list, so this fails.                              *)
(***************************************************************************)
C1_MatchedRowsFirst ==
  \A l \in Lists :
    (Attached(l) /\ IsSavedOrder(stored)) =>
      children[l] = InOrderOf(SavedItems(stored), rendered[l])
                      \o NotNamedIn(SavedItems(stored), rendered[l])

(***************************************************************************)
(* C2  Round trip: once a list whose rows carry exactly the names of a     *)
(* stored sequence S of distinct names is attached, the names of its rows  *)
(* read top to bottom are S, whatever order the host rendered them in.     *)
(***************************************************************************)
ExactlyNamed(l, S) ==
  /\ \A r \in HomeRows(l) : RowName(r) # ""
  /\ \A r1, r2 \in HomeRows(l) : RowName(r1) = RowName(r2) => r1 = r2
  /\ {RowName(r) : r \in HomeRows(l)} = Range(S)

C2_RoundTrip ==
  \A l \in Lists :
    (/\ Attached(l)
     /\ IsSavedOrder(stored)
     /\ NoRepeats(SavedItems(stored))
     /\ ExactlyNamed(l, SavedItems(stored)))
    => OrderOf(children[l]) = SavedItems(stored)

C2_Witness ==
  /\ Attached("L1")
  /\ stored = Store_save(<<"C", "A", "B">>)
  /\ rendered["L1"] = <<1, 2, 3>>
  /\ children["L1"] = <<3, 1, 2>>

(***************************************************************************)
(* C4  Malformed storage: when the stored value is missing, is no JSON or  *)
(* is JSON that is no array, attaching behaves as with no saved order: no  *)
(* exception leaves the observer callback, and every list the callback     *)
(* flagged keeps its rendered order and has all its rows gripped.  The     *)
(* code lets the exceptions of JSON.parse, null.length and                 *)
(* "abc".forEach escape from #init, so this fails.                         *)
(***************************************************************************)
C4_MalformedIsNoOrder ==
  ~IsSavedOrder(stored) =>
    /\ ~escaped
    /\ \A l \in Lists :
         sortAttach[l] =>
           /\ children[l] = rendered[l]
           /\ \A r \in HomeRows(l) : Gripped(r)

(***************************************************************************)
(* C7  Idempotent attachment: however often the observer has seen a list   *)
(* element, the saved order was applied to it exactly once and each of its *)
(* rows carries exactly one handle with one pointer-down listener.  With a *)
(* stored value that makes #init throw (C4) the list is flagged but the    *)
(* order is applied zero times and no row gets a handle, so this fails.    *)
(***************************************************************************)
C7_AttachedExactlyOnce ==
  \A l \in Lists :
    sortAttach[l] =>
      /\ applied[l] = 1
      /\ \A r \in HomeRows(l) : Gripped(r)

(***************************************************************************)
(* C8  Discovery: every list present in the page is wired up.  The only    *)
(* step that wires a list is the observer callback, which runs only while  *)
(* mutation records are pending; so "eventually wired" means that whenever *)
(* no record is pending every list in the document is attached with all    *)
(* its rows gripped.  The code never looks at a list that was there at     *)
(* start-up, that is the inserted node itself, or that is not the first    *)
(* list under the inserted node, so this fails.                            *)
(***************************************************************************)
C8_EveryPresentListWired ==
  pending = <<>> =>
    \A l \in inDoc :
      /\ Attached(l)
      /\ \A r \in HomeRows(l) : Gripped(r)

(***************************************************************************)
(* C9  Restore leaves unnamed rows alone: for a stored Saved Order S, two  *)
(* rows of an attached list whose names are both absent from S come in the *)
(* order the host rendered them in.                                        *)
(***************************************************************************)
C9_UnnamedRowsKeepOrder ==
  \A l \in Lists :
    (sortAttach[l] /\ IsSavedOrder(stored)) =>
      \A r1, r2 \in HomeRows(l) :
        (~NamedIn(SavedItems(stored), r1) /\ ~NamedIn(SavedItems(stored), r2))
        => (Precedes(children[l], r1, r2) <=> Precedes(rendered[l], r1, r2))

C9_Witness ==
  /\ Attached("L1")
  /\ stored = Store_save(<<"X", "A">>)
  /\ rendered["L1"] = <<1, 2, 3>>
  /\ children["L1"] = <<2, 3, 1>>

(***************************************************************************)
(* Steps of the pointer handlers, told by what they do to the document's   *)
(* handlers and to this.drag.                                              *)
(***************************************************************************)
UpStep == onpointerup /\ ~onpointerup'
DragActive == drag # NoDrag

PlaceholdersIn(l) == {i \in Range(children[l]) : IsPh(i)}
FixedRows == {r \in Rows : "position" \in style[r]}

\* the names of the rows of q, top to bottom, rows without a name left out
RECURSIVE NamesTopToBottom(_)
NamesTopToBottom(q) ==
  IF q = <<>> THEN <<>>
  ELSE IF IsRow(Head(q)) /\ RowName(Head(q)) # ""
       THEN <<RowName(Head(q))>> \o NamesTopToBottom(Tail(q))
       ELSE NamesTopToBottom(Tail(q))

C5_SingleSession ==
  /\ Cardinality(FixedRows) <= 1
  /\ Cardinality(UNION {PlaceholdersIn(l) : l \in Lists}) <= 1
  /\ ~DragActive => (FixedRows = {} /\ \A l \in Lists : PlaceholdersIn(l) = {})

(***************************************************************************)
(* C6  Placeholder invariant: while a drag session is active its list      *)
(* holds exactly one placeholder, and no pointer-move picks the dragged    *)
(* row as the row the placeholder goes next to.  The second half holds;    *)
(* the first fails once a second pointer-down (C5) has left the first      *)
(* session's placeholder in the list.                                      *)
(***************************************************************************)
C6_OnePlaceholder ==
  DragActive =>
    /\ Cardinality(PlaceholdersIn(drag.list)) = 1
    /\ \A y \in PointerYs :
         HitRow(y, drag.row, drag.list, inDoc, children[drag.list],
                scrollTop[drag.list], style, rowTop, phHeight) # drag.row

(***************************************************************************)
(* C10  Auto-scroll boundary.  As claimed: a pointer-move with Y strictly  *)
(* inside the 40 px margin at the top of the list lowers the scroll offset *)
(* by exactly 40, one strictly inside the margin at the bottom raises it   *)
(* by exactly 40, and any other Y leaves it as it is.                      *)
(***************************************************************************)
C10_ScrollsByExactlyTheMargin ==
  [][\A y \in PointerYs :
       Move(y) =>
         LET l == drag.list
             top == ListRect(l, inDoc).top
             bottom == ListRect(l, inDoc).bottom
         IN IF top < y /\ y < top + 40
            THEN scrollTop'[l] = scrollTop[l] - 40
            ELSE IF bottom - 40 < y /\ y < bottom
                 THEN scrollTop'[l] = scrollTop[l] + 40
                 ELSE scrollTop'[l] = scrollTop[l]
    ]_vars

(***************************************************************************)
(* C10 as amended: a pointer-move with Y less than the list's top plus 40  *)
(* sets the scroll offset to the offset minus 40, but not below 0;         *)
(* otherwise one with Y greater than the list's bottom minus 40 sets it to *)
(* the offset plus 40, but not above the largest offset the list can be    *)
(* scrolled to; any other move leaves it as it is.                         *)
(***************************************************************************)
C10_ScrollsWithinRange ==
  [][\A y \in PointerYs :
       Move(y) =>
         LET l == drag.list
             top == ListRect(l, inDoc).top
             bottom == ListRect(l, inDoc).bottom
             most == MaxScroll(l, inDoc, children[l], style, phHeight)
         IN IF y < top + 40
            THEN scrollTop'[l] = (IF scrollTop[l] - 40 < 0 THEN 0
                                  ELSE scrollTop[l] - 40)
            ELSE IF y > bottom - 40
                 THEN scrollTop'[l] = (IF scrollTop[l] + 40 > most THEN most
                                       ELSE scrollTop[l] + 40)
                 ELSE scrollTop'[l] = scrollTop[l]
    ]_vars

\* a move near the bottom has scrolled the list as far as it goes
C10_Witness ==
  /\ DragActive
  /\ drag.list \in inDoc
  /\ scrollTop[drag.list] > 0
  /\ scrollTop[drag.list] =
       MaxScroll(drag.list, inDoc, children[drag.list], style, phHeight)

(***************************************************************************)
(***************************************************************************)
(* src/all-extensions.js: the dynamic loader.                              *)
(***************************************************************************)
(***************************************************************************)

\* CONFIG.EXTENSIONS (lines 57-123), in the order of the source
Extension(name, category, dependencies) ==
  [name |-> name, category |-> category, dependencies |-> dependencies]

CONFIG_EXTENSIONS ==
  << Extension("plugin-js-zip", "dependency", <<>>),
     Extension("auto-thought-toggle", "extension", <<>>),
     Extension("hide-teams", "extension", <<>>),
     Extension("quote-reply", "extension", <<>>),
     Extension("rearrange-plugins", "extension", <<>>),
     Extension("xml-tag-creator", "extension", <<>>),
     Extension("plugin-export-chats", "extension", <<"plugin-js-zip">>),
     Extension("cloud-backup", "extension", <<>>),
     Extension("gpt", "theme", <<>>),
     Extension("ui-tweaks", "theme", <<>>) >>

ConfigNames == {CONFIG_EXTENSIONS[i].name : i \in 1..Len(CONFIG_EXTENSIONS)}

\* Array.prototype.includes
Includes(q, x) == \E i \in 1..Len(q) : q[i] = x

\* Array.prototype.map with String.prototype.trim
MapTrim(q) == [i \in 1..Len(q) |-> Trim(q[i])]

\* a query parameter that is present holds its value split at the commas:
\* at least one piece ('' splits into ['']); an absent one is Absent
Given(pieces) == [given |-> TRUE, pieces |-> pieces]

\* Utils.parseUrlParams (lines 148-156): only is null when the parameter is
\* absent, exclude is [] then
Utils_parseUrlParams(search) ==
  [only |-> IF search.only.given THEN Given(MapTrim(search.only.pieces)) ELSE Absent,
   exclude |-> IF search.exclude.given THEN MapTrim(search.exclude.pieces) ELSE <<>>]

\* getExtensionsToLoad, the filter by 'only' (lines 207-212)
FilterOnly(exts, p) ==
  IF p.only.given
  THEN SelectSeq(exts, LAMBDA ext : Includes(p.only.pieces, ext.name))
  ELSE exts

\* a filter by 'exclude' that spares what 'only' names
FilterExclude_SparesOnly(exts, p) ==
  IF Len(p.exclude) > 0
  THEN SelectSeq(exts, LAMBDA ext : \/ ~Includes(p.exclude, ext.name)
                                    \/ (p.only.given /\ Includes(p.only.pieces, ext.name)))
  ELSE exts

\* getExtensionsToLoad, the filter by 'exclude' (lines 215-220)
FilterExclude(exts, p) ==
  IF Len(p.exclude) > 0
  THEN SelectSeq(exts, LAMBDA ext : ~Includes(p.exclude, ext.name))
  ELSE exts

\* getExtensionsToLoad, the sort (lines 223-227): the comparator puts an
\* extension of category 'dependency' before every other one and leaves the
\* others as they are (the sort is stable)
SortDependenciesFirst(exts) ==
  SelectSeq(exts, LAMBDA ext : ext.category = "dependency")
    \o SelectSeq(exts, LAMBDA ext : ext.category # "dependency")

\* ExtensionLoader.getExtensionsToLoad (lines 203-230)
getExtensionsToLoad(p) ==
  SortDependenciesFirst(FilterExclude(FilterOnly(CONFIG_EXTENSIONS, p), p))

\* Utils.loadScript (lines 166-186) has not been called for the extension
NoRequest == [script |-> "none", timer |-> "none", promise |-> "none", stalled |-> FALSE]

\* Utils.loadScript: the script element is in document.head, the 30 s timer is
\* armed, the promise is pending
NewRequest == [script |-> "loading", timer |-> "armed", promise |-> "pending",
               stalled |-> FALSE]

\* the error messages of loadExtension (line 240) and loadScript (lines 171, 181)
DependencyError(dep) == [kind |-> "Dependency not loaded", of |-> dep]
TimeoutError(name) == [kind |-> "Timeout loading", of |-> name]
NetworkError(name) == [kind |-> "Failed to load", of |-> name]

\* a dependency check that lets everything through
MissingDependencies_None(ext, loaded) == <<>>

\* loadExtension, the dependency check (lines 237-243): the dependencies that
\* are not in this.loadedExtensions, in their order
MissingDependencies(ext, loaded) ==
  SelectSeq(ext.dependencies, LAMBDA dep : dep \notin loaded)

\* a promise that can be settled again
Settles_Again(promise) == promise # "none"

\* resolve() and reject() act on a pending promise only
Settles(promise) == promise = "pending"

\* the catch blocks of loadExtension (lines 256-260) and loadAll (lines 277-287)
Failed(L, name, error) ==
  [L EXCEPT !.failedExtensions = @ \cup {name},
            !.results.failed = Append(@, [name |-> name, error |-> error])]

\* loadExtension line 250 and loadAll line 276
Loaded(L, name) ==
  [L EXCEPT !.loadedExtensions = @ \cup {name},
            !.results.loaded = Append(@, name)]

\* loadAll, the loop from the i-th extension on (lines 273-291), up to the
\* next await that has to wait: an extension with a missing dependency is
\* recorded as failed and the loop goes on; any other has its script
\* requested; after the last one the results are reported and returned
RECURSIVE LoadFrom(_, _)
LoadFrom(L, i) ==
  IF i > Len(L.extensions)
  THEN [L EXCEPT !.position = i, !.finished = TRUE]
  ELSE LET ext == L.extensions[i]
           missing == MissingDependencies(ext, L.loadedExtensions)
       IN IF Len(missing) > 0
          THEN LoadFrom(Failed(L, ext.name, DependencyError(missing[1])), i + 1)
          ELSE [L EXCEPT !.position = i, !.request[ext.name] = NewRequest]

\* the loader's fields as one record, and back
LoaderState ==
  [params |-> params, loadedExtensions |-> loadedExtensions,
   failedExtensions |-> failedExtensions, extensions |-> extensions,
   position |-> position, results |-> results, finished |-> finished,
   request |-> request]

SetLoader(L) ==
  /\ params' = L.params
  /\ loadedExtensions' = L.loadedExtensions
  /\ failedExtensions' = L.failedExtensions
  /\ extensions' = L.extensions
  /\ position' = L.position
  /\ results' = L.results
  /\ finished' = L.finished
  /\ request' = L.request

\* the state after the script was evaluated (lines 332-337): the loader is
\* not constructed yet
LoaderInit ==
  /\ params = [only |-> Absent, exclude |-> <<>>]
  /\ loadedExtensions = {}
  /\ failedExtensions = {}
  /\ extensions = <<>>
  /\ position = 0
  /\ results = [loaded |-> <<>>, failed |-> <<>>, skipped |-> <<>>]
  /\ finished = FALSE
  /\ request = [n \in ConfigNames |-> NoRequest]

\* initializeLoader (lines 321-330): the constructor (lines 191-201) and
\* loadAll up to its first await that has to wait
InitializeLoader ==
  /\ position = 0
  /\ LET p == Utils_parseUrlParams(location_search)
     IN SetLoader(LoadFrom([LoaderState EXCEPT !.params = p,
                                               !.extensions = getExtensionsToLoad(p)], 1))
  /\ UNCHANGED exceptLoader

\* requests the network has failed or stalled so far
Faults == Cardinality({n \in ConfigNames : request[n].stalled \/ request[n].script = "error"})

\* the network stalls a request: no answer arrives before the timer fires
Stall(name) ==
  /\ request[name].script = "loading"
  /\ request[name].timer = "armed"
  /\ ~request[name].stalled
  /\ Faults < MaxFaults
  /\ request' = [request EXCEPT ![name].stalled = TRUE]
  /\ UNCHANGED <<exceptLoader, params, loadedExtensions, failedExtensions,
                 extensions, position, results, finished>>

\* script.onload (lines 174-177), and the continuation of loadExtension and
\* loadAll when the promise resolves
OnLoad(name) ==
  /\ request[name].script = "loading"
  /\ request[name].stalled => request[name].timer = "fired"
  /\ LET r == request[name]
         L == [LoaderState EXCEPT
                 !.request[name].script = "loaded",
                 !.request[name].timer = IF r.timer = "armed" THEN "cleared" ELSE @]
     IN IF Settles(r.promise)
        THEN SetLoader(LoadFrom(Loaded([L EXCEPT !.request[name].promise = "resolved"],
                                       name), position + 1))
        ELSE SetLoader(L)
  /\ UNCHANGED exceptLoader

\* script.onerror (lines 179-182), and the catch blocks when the promise
\* rejects
OnError(name) ==
  /\ request[name].script = "loading"
  /\ request[name].stalled => request[name].timer = "fired"
  /\ request[name].stalled \/ Faults < MaxFaults
  /\ LET r == request[name]
         L == [LoaderState EXCEPT
                 !.request[name].script = "error",
                 !.request[name].timer = IF r.timer = "armed" THEN "cleared" ELSE @]
     IN IF Settles(r.promise)
        THEN SetLoader(LoadFrom(Failed([L EXCEPT !.request[name].promise = "rejected"],
                                       name, NetworkError(name)), position + 1))
        ELSE SetLoader(L)
  /\ UNCHANGED exceptLoader

\* the timer of loadScript fires (lines 170-172), and the catch blocks when
\* the promise rejects
Timeout(name) ==
  /\ request[name].timer = "armed"
  /\ request[name].stalled
  /\ LET r == request[name]
         L == [LoaderState EXCEPT !.request[name].timer = "fired"]
     IN IF Settles(r.promise)
        THEN SetLoader(LoadFrom(Failed([L EXCEPT !.request[name].promise = "rejected"],
                                       name, TimeoutError(name)), position + 1))
        ELSE SetLoader(L)
  /\ UNCHANGED exceptLoader

\* query strings of the runs: none, and ones that select the dependent
\* extension with and without its dependency
LoaderSearches ==
  {NoSearch,
   [NoSearch EXCEPT !.only = Given(<<"plugin-export-chats">>)],
   [NoSearch EXCEPT !.exclude = Given(<<"plugin-js-zip">>)],
   [NoSearch EXCEPT !.only = Given(<<"plugin-js-zip", " plugin-export-chats", "gpt ">>)],
   [NoSearch EXCEPT !.only = Given(<<"gpt ", "plugin-js-zip">>),
                    !.exclude = Given(<<"gpt">>)]}

InitLoader ==
  /\ SorterIdle
  /\ TweaksIdle
  /\ location_search \in LoaderSearches
  /\ LoaderInit
  /\ BundleIdle /\ QuoteIdle /\ ThoughtIdle /\ TagsIdle

NextLoader ==
  \/ InitializeLoader
  \/ \E name \in ConfigNames : Stall(name)
  \/ \E name \in ConfigNames : OnLoad(name)
  \/ \E name \in ConfigNames : OnError(name)
  \/ \E name \in ConfigNames : Timeout(name)

SpecLoader == InitLoader /\ [][NextLoader]_vars

\* the same, with the scheduling the browser guarantees: the loader is
\* started, an armed timer fires, and a request that is not stalled is
\* answered
Answer(name) == ~request[name].stalled /\ (OnLoad(name) \/ OnError(name))

SpecLoaderFair ==
  /\ SpecLoader
  /\ WF_vars(InitializeLoader)
  /\ \A name \in ConfigNames : WF_vars(Timeout(name)) /\ WF_vars(Answer(name))

\* the selection alone, for every query string over these pieces
ParamPieces == {"plugin-js-zip", " plugin-export-chats", "gpt ", "", "nope"}

RawParams == {Absent} \cup {Given(q) : q \in SeqsUpTo(ParamPieces, MaxParam) \ {<<>>}}

InitSelect ==
  /\ SorterIdle
  /\ TweaksIdle
  /\ location_search \in {[NoSearch EXCEPT !.only = o, !.exclude = x] :
                             o \in RawParams, x \in RawParams}
  /\ LoaderInit
  /\ BundleIdle /\ QuoteIdle /\ ThoughtIdle /\ TagsIdle

NextSelect == InitializeLoader

SpecSelect == InitSelect /\ [][NextSelect]_vars

(***************************************************************************)
(* Vocabulary of the loader's properties.                                  *)
(***************************************************************************)
ConfigOf(name) ==
  CONFIG_EXTENSIONS[CHOOSE i \in 1..Len(CONFIG_EXTENSIONS) : CONFIG_EXTENSIONS[i].name = name]

Requested(name) == request[name].script # "none"

ExtensionNames == {extensions[i].name : i \in 1..Len(extensions)}

\* how far loadAll has got with the extension: it was taken up by the loop
TakenUp(name) ==
  \E i \in 1..Len(extensions) : extensions[i].name = name /\ i <= position

FailedNames == [i \in 1..Len(results.failed) |-> results.failed[i].name]

FailedWith(name, error) ==
  \E i \in 1..Len(results.failed) : results.failed[i] = [name |-> name, error |-> error]

\* the names the raw query parameter holds, each piece trimmed
NamedBy(raw) == {Trim(raw.pieces[i]) : i \in 1..Len(raw.pieces)}

(***************************************************************************)
(* C11  Dependency order: the script of an extension with dependencies is  *)
(* requested only when every dependency is in loadedExtensions (its script *)
(* has fired its load event); an extension the loop has taken up without   *)
(* requesting it is in failedExtensions and in results.failed with the     *)
(* error "Dependency ... not loaded"; and plugin-export-chats is loaded    *)
(* only after plugin-js-zip.                                               *)
(***************************************************************************)
C11_DependencyOrder ==
  position > 0 =>
    \A name \in ConfigNames :
      LET deps == Range(ConfigOf(name).dependencies)
      IN /\ Requested(name) =>
              \A dep \in deps : dep \in loadedExtensions /\ request[dep].script = "loaded"
         /\ (TakenUp(name) /\ ~Requested(name)) =>
              /\ name \in failedExtensions
              /\ name \notin loadedExtensions
              /\ \E dep \in deps : /\ FailedWith(name, DependencyError(dep))
                                   /\ request[dep].promise # "resolved"
         /\ name \in loadedExtensions =>
              \A dep \in deps : Precedes(results.loaded, dep, name)

\* plugin-export-chats has been loaded
C11_Witness ==
  /\ "plugin-export-chats" \in loadedExtensions
  /\ request["plugin-export-chats"].script = "loaded"
  /\ finished

(***************************************************************************)
(* C12  Error isolation: loadAll takes the selected extensions one after   *)
(* another (never two pending loads, nothing requested ahead of the loop), *)
(* no name is recorded twice and none is both in results.loaded and in     *)
(* results.failed (nor in both of loadedExtensions and failedExtensions),  *)
(* also when a load event arrives after the timeout; loadAll always        *)
(* finishes, and then every selected extension is recorded exactly once.   *)
(***************************************************************************)
C12_Recorded == results.loaded \o FailedNames

C12_Isolated ==
  /\ Cardinality({n \in ConfigNames : request[n].promise = "pending"}) <= 1
  /\ \A i \in 1..Len(extensions) : i > position => ~Requested(extensions[i].name)
  /\ NoRepeats(C12_Recorded)
  /\ Range(C12_Recorded) = {n \in ExtensionNames :
                              TakenUp(n) /\ request[n].promise # "pending"}
  /\ Range(results.loaded) = loadedExtensions
  /\ Range(FailedNames) = failedExtensions
  /\ loadedExtensions \cap failedExtensions = {}
  /\ finished => Range(C12_Recorded) = ExtensionNames

C12_ErrorIsolation == [](C12_Isolated) /\ <>finished

\* loadAll has finished after a timeout whose script was loaded afterwards
\* and with a later extension loaded
C12_Witness ==
  /\ finished
  /\ \E n, m \in ExtensionNames :
       /\ request[n].timer = "fired"
       /\ request[n].script = "loaded"
       /\ n \in failedExtensions
       /\ m \in loadedExtensions
       /\ Precedes(extensions, ConfigOf(n), ConfigOf(m))

enabledByDefault ==
  <<"auto-thought-toggle", "hide-teams", "quote-reply", "rearrange-plugins",
    "xml-tag-creator", "plugin-js-zip", "plugin-export-chats", "gpt", "ui-tweaks">>

\* BUNDLE_CONFIG.extensions after the registerExtension calls (lines 134, 266,
\* 307, 368, 407, 417): the keys of the Map in insertion order
Registered ==
  <<"auto-thought-toggle", "hide-teams", "quote-reply", "xml-tag-creator",
    "plugin-js-zip", "gpt">>

\* BundleUtils.parseParams (lines 88-95)
BundleUtils_parseParams(search) ==
  [enable |-> IF search.enable.given THEN Given(MapTrim(search.enable.pieces)) ELSE Absent,
   disable |-> IF search.disable.given THEN MapTrim(search.disable.pieces) ELSE <<>>]

\* a selection in which disable overrules enable
BundleUtils_shouldLoad_DisableFirst(name, p) ==
  IF Includes(p.disable, name) THEN FALSE
  ELSE IF p.enable.given THEN Includes(p.enable.pieces, name)
  ELSE Includes(enabledByDefault, name)

\* BundleUtils.shouldLoad (lines 97-105)
BundleUtils_shouldLoad(name, p) ==
  IF p.enable.given THEN Includes(p.enable.pieces, name)
  ELSE IF Includes(p.disable, name) THEN FALSE
  ELSE Includes(enabledByDefault, name)

\* BundleUtils.safeExecute (lines 107-116): fn() is called inside try; the
\* result is false when it threw
BundleUtils_safeExecute(name, thr) == name \notin thr

\* loadBundle, the loop over BUNDLE_CONFIG.extensions (lines 445-459)
RECURSIVE LoadEach(_, _, _, _)
LoadEach(B, names, p, thr) ==
  IF names = <<>> THEN B
  ELSE LET name == Head(names)
           next ==
             IF BundleUtils_shouldLoad(name, p)
             THEN IF BundleUtils_safeExecute(name, thr)
                  THEN [B EXCEPT !.executed = Append(@, name),
                                 !.results.loaded = Append(@, name)]
                  ELSE [B EXCEPT !.executed = Append(@, name),
                                 !.results.failed = Append(@, name)]
             ELSE [B EXCEPT !.results.skipped = Append(@, name)]
       IN LoadEach(next, Tail(names), p, thr)

\* loadBundle (lines 435-480), called once the document is ready
loadBundle ==
  /\ ~bundleDone
  /\ LET B == LoadEach([executed |-> executed,
                        results |-> [loaded |-> <<>>, failed |-> <<>>, skipped |-> <<>>]],
                       Registered, BundleUtils_parseParams(location_search), throws)
     IN /\ executed' = B.executed
        /\ bundleResults' = B.results
  /\ bundleDone' = TRUE
  /\ UNCHANGED <<exceptBundle, throws>>

\* the pieces of the enable / disable parameters, and the bodies that may throw
BundlePieces == {"quote-reply", "gpt ", "", "cloud-backup"}

BundleParams == {Absent} \cup {Given(q) : q \in SeqsUpTo(BundlePieces, MaxParam) \ {<<>>}}

MayThrow == {"auto-thought-toggle", "quote-reply", "gpt"}

InitBundle ==
  /\ SorterIdle
  /\ TweaksIdle
  /\ LoaderIdle
  /\ location_search \in {[NoSearch EXCEPT !.enable = e, !.disable = d] :
                             e \in BundleParams, d \in BundleParams}
  /\ throws \in SUBSET MayThrow
  /\ executed = <<>>
  /\ bundleResults = [loaded |-> <<>>, failed |-> <<>>, skipped |-> <<>>]
  /\ bundleDone = FALSE
  /\ QuoteIdle /\ ThoughtIdle /\ TagsIdle

NextBundle == loadBundle

SpecBundle == InitBundle /\ [][NextBundle]_vars

(***************************************************************************)
(* C14  Embedded bundle, selection and isolation: after loadBundle a       *)
(* registered extension has been executed iff enable is present and names  *)
(* it, or enable is absent, disable does not name it and it is enabled by  *)
(* default; every registered extension is in exactly one of loaded, failed *)
(* and skipped (failed iff its body threw), so a body that throws stops no *)
(* later one.                                                              *)
(***************************************************************************)
C14_Selected(name) ==
  \/ location_search.enable.given /\ name \in NamedBy(location_search.enable)
  \/ /\ ~location_search.enable.given
     /\ ~(location_search.disable.given /\ name \in NamedBy(location_search.disable))
     /\ name \in Range(enabledByDefault)

C14_SelectionAndIsolation ==
  bundleDone =>
    LET all == bundleResults.loaded \o bundleResults.failed \o bundleResults.skipped
    IN /\ NoRepeats(all)
       /\ Range(all) = Range(Registered)
       /\ NoRepeats(executed)
       /\ \A name \in Range(Registered) :
            /\ name \in Range(executed) <=> C14_Selected(name)
            /\ name \in Range(bundleResults.failed) <=>
                 (C14_Selected(name) /\ name \in throws)
            /\ name \in Range(bundleResults.skipped) <=> ~C14_Selected(name)

\* a body threw, a later one ran, and one was named by both parameters
C14_Witness ==
  /\ bundleDone
  /\ "quote-reply" \in Range(bundleResults.failed)
  /\ "gpt" \in Range(bundleResults.loaded)
  /\ bundleResults.skipped # <<>>
  /\ location_search.disable.given
  /\ "gpt" \in NamedBy(location_search.disable)

(***************************************************************************)
(***************************************************************************)
(* src/extensions/quote-reply.js: quote reply.  The chat input row, the    *)
(* textbox and the send button (with the click handler of                  *)
(* observeSendButton on it) are in the page; the host sends the textbox    *)
(* and empties it when its own send is triggered.                          *)
(***************************************************************************)
(***************************************************************************)

\* a text is the sequence of its lines; a line is its prefix and its rest
Blank == <<"", "">>

\* the quotes the user can select, and the texts the user can type
QuoteTexts == {<< "q1" >>, << "q2", "q3" >>}

TypedTexts == {<<>>, << <<"", "hi">> >>}

\* processAndSend line 254: fullQuote.split('\n').map(line => `> ${line}`).join('\n')
BlockQuote(quote) == [i \in 1..Len(quote) |-> <<"> ", quote[i]>>]

\* processAndSend line 257: quotes.join("\n\n")
RECURSIVE JoinQuotes(_)
JoinQuotes(quotes) ==
  IF quotes = <<>> THEN <<>>
  ELSE IF Len(quotes) = 1 THEN BlockQuote(quotes[1])
  ELSE BlockQuote(quotes[1]) \o <<Blank>> \o JoinQuotes(Tail(quotes))

\* processAndSend line 257: newText
NewText(quotes, value) ==
  JoinQuotes(quotes) \o (IF value # <<>> THEN <<Blank>> \o value ELSE <<>>)

\* the part of the page and of this.state that the handlers work on
QuoteState ==
  [labels |-> labels, textbox |-> textbox, isProcessing |-> isProcessing,
   sendTimer |-> sendTimer, sends |-> sends, intercepted |-> intercepted,
   textArea |-> textArea, runs |-> runs]

SetQuote(Q) ==
  /\ labels' = Q.labels
  /\ textbox' = Q.textbox
  /\ isProcessing' = Q.isProcessing
  /\ sendTimer' = Q.sendTimer
  /\ sends' = Q.sends
  /\ intercepted' = Q.intercepted
  /\ textArea' = Q.textArea
  /\ runs' = Q.runs

\* a guard that lets every call through
InProgress_Never(Q) == FALSE

\* line 242: if (this.state.isProcessing) return
InProgress(Q) == Q.isProcessing

\* QuoteReply.processAndSend (lines 241-282) up to its await: nothing when a
\* run is in progress; nothing but isProcessing set and reset when the page
\* has no textbox or no label; otherwise the quotes go into the textbox,
\* the labels are removed and the 50 ms timer is started.  With fault
\* "throws" the host's onChange (line 262) throws: the catch logs, the
\* finally resets isProcessing, the labels stay
processAndSend(Q, fault) ==
  IF InProgress(Q) THEN Q
  ELSE IF ~Q.textArea \/ Q.labels = <<>> THEN [Q EXCEPT !.isProcessing = FALSE]
  ELSE IF fault = "throws" THEN [Q EXCEPT !.isProcessing = FALSE]
  ELSE [Q EXCEPT !.isProcessing = TRUE,
                 !.textbox = NewText(Q.labels, Q.textbox),
                 !.labels = <<>>,
                 !.sendTimer = TRUE,
                 !.runs = @ + 1]

\* the host's own send: the message goes out and the textbox is emptied
HostSend(Q) == [Q EXCEPT !.sends = @ + 1, !.textbox = <<>>]

\* the keydown handler (lines 299-309) and the click handler on the send
\* button (lines 317-325): with quote labels present the event is stopped
\* and processAndSend is called; otherwise the event reaches the host
Dispatch(Q, fault) ==
  IF Q.labels # <<>>
  THEN processAndSend([Q EXCEPT !.intercepted = @ + 1], fault)
  ELSE HostSend(Q)

QuoteInit ==
  /\ labels = <<>>
  /\ textbox \in TypedTexts
  /\ isProcessing = FALSE
  /\ sendTimer = FALSE
  /\ sends = 0
  /\ intercepted = 0
  /\ textArea = TRUE
  /\ runs = 0

\* the popover's onclick (lines 123-126) with a selected text: addQuoteLabel
AddQuote(quote) ==
  /\ Len(labels) < MaxLabels
  /\ sends + intercepted < MaxEvents
  /\ labels' = Append(labels, quote)
  /\ UNCHANGED <<exceptQuote, textbox, isProcessing, sendTimer, sends, intercepted,
                 textArea, runs>>

\* the user types in the textbox
Type(text) ==
  /\ textArea
  /\ textbox # text
  /\ textbox' = text
  /\ UNCHANGED <<exceptQuote, labels, isProcessing, sendTimer, sends, intercepted,
                 textArea, runs>>

\* Enter in the textbox
PressEnter ==
  /\ textArea
  /\ sends + intercepted < MaxEvents
  /\ SetQuote(Dispatch(QuoteState, "none"))
  /\ UNCHANGED exceptQuote

\* the user clicks the send button
ClickSend ==
  /\ sends + intercepted < MaxEvents
  /\ SetQuote(Dispatch(QuoteState, "none"))
  /\ UNCHANGED exceptQuote

\* the 50 ms timer of processAndSend fires (lines 271-281): the send button
\* is clicked, which runs the click handler, and isProcessing is reset
SendTimerFires ==
  /\ sendTimer
  /\ SetQuote([Dispatch([QuoteState EXCEPT !.sendTimer = FALSE], "none")
                 EXCEPT !.isProcessing = FALSE, !.runs = @ - 1])
  /\ UNCHANGED exceptQuote

InitQuote ==
  /\ SorterIdle
  /\ TweaksIdle
  /\ location_search = NoSearch
  /\ LoaderIdle /\ BundleIdle /\ ThoughtIdle /\ TagsIdle
  /\ QuoteInit

NextQuote ==
  \/ \E quote \in QuoteTexts : AddQuote(quote)
  \/ \E text \in TypedTexts : Type(text)
  \/ PressEnter
  \/ ClickSend
  \/ SendTimerFires

SpecQuote == InitQuote /\ [][NextQuote]_vars

(***************************************************************************)
(* Quote reply on a page that takes the chat input away and puts it back,  *)
(* and whose onChange may throw.                                           *)
(***************************************************************************)
\* the host removes the chat input or renders it anew
HostSetsTextbox(present) ==
  /\ textArea # present
  /\ textArea' = present
  /\ textbox' = <<>>
  /\ UNCHANGED <<exceptQuote, labels, isProcessing, sendTimer, sends, intercepted, runs>>

\* a click on the send button, with labels and a textbox present and no
\* run in progress, in which the host's onChange throws (line 262)
ClickSendThrows ==
  /\ sends + intercepted < MaxEvents
  /\ labels # <<>> /\ textArea /\ ~isProcessing
  /\ SetQuote(Dispatch(QuoteState, "throws"))
  /\ UNCHANGED exceptQuote

NextFlight ==
  \/ \E quote \in QuoteTexts : AddQuote(quote)
  \/ \E text \in TypedTexts : Type(text)
  \/ \E present \in BOOLEAN : HostSetsTextbox(present)
  \/ PressEnter
  \/ ClickSend
  \/ ClickSendThrows
  \/ SendTimerFires

SpecFlight == InitQuote /\ [][NextFlight]_vars

(***************************************************************************)
(* C15  Send with quotes: every step in which a handler takes over an      *)
(* Enter or a click puts the quotes, as block quotes, ahead of the text of *)
(* the textbox and removes the quote labels; and every step in which the   *)
(* 50 ms wait ends triggers the host's own send exactly once.  The code    *)
(* does neither when a label is added during the wait.                     *)
(***************************************************************************)
C15_SendWithQuotes ==
  [][/\ intercepted' # intercepted =>
          (labels' = <<>> /\ textbox' = NewText(labels, textbox))
     /\ (sendTimer /\ ~sendTimer') => sends' = sends + 1]_vars

(***************************************************************************)
(***************************************************************************)
(* src/extensions/auto-thought-toggle.js: the auto-thought toggle.  The    *)
(* host adds details elements (blocks) to the responses and elements after *)
(* them; the user clicks their summaries and the menu entry.               *)
(***************************************************************************)
(***************************************************************************)
BlockIds == {"b1", "b2"}

\* the texts of the summaries, and what may follow a block in its response
SummaryLabels == {"Thinking...", "Sources"}

SiblingKinds == {"none", "content", "actions"}

NoBlock ==
  [present |-> FALSE, label |-> "Sources", next |-> "none", open |-> FALSE,
   autoExpanded |-> FALSE, userInteracted |-> FALSE, tracked |-> FALSE]

\* /Thinking|Thought/i.test(label) (line 155)
LabelMatches(label) == label = "Thinking..."

\* a test that takes every following element for response content
MatchesContent_AnySibling(next) == next # "none"

\* next && next.matches(CONFIG.SELECTORS.content) (lines 143, 162): a child of
\* the response that is neither a details element nor the container of the
\* additional actions
MatchesContent(next) == next = "content"

\* a constructor that starts disabled when nothing is stored
ReadEnabled_DefaultOff(raw) == raw = "true"

\* constructor line 87: JSON.parse(localStorage.getItem(key) ?? 'true')
ReadEnabled(raw) == IF raw = "missing" THEN TRUE ELSE raw = "true"

\* #setState line 131: JSON.stringify(on)
StringifyFlag(on) == IF on THEN "true" ELSE "false"

\* #autoToggle on one block: collapse (lines 141-147), manage (lines 150-166),
\* track the summary (lines 169-182)
Collapse(b) ==
  IF b.present /\ b.autoExpanded /\ MatchesContent(b.next)
  THEN [b EXCEPT !.open = FALSE, !.autoExpanded = FALSE]
  ELSE b

Manage(b) ==
  IF ~b.present \/ b.autoExpanded \/ b.userInteracted \/ ~LabelMatches(b.label)
  THEN b
  ELSE IF MatchesContent(b.next)
       THEN [b EXCEPT !.open = FALSE, !.autoExpanded = FALSE]
       ELSE [b EXCEPT !.open = TRUE, !.autoExpanded = TRUE]

Track(b) == IF b.present THEN [b EXCEPT !.tracked = TRUE] ELSE b

\* AutoThoughtToggle.#autoToggle (lines 137-182)
autoToggle(on, bs) ==
  IF ~on THEN bs
  ELSE [id \in BlockIds |-> Track(Manage(Collapse(bs[id])))]

ThoughtInit ==
  /\ thoughtStored \in {"missing", "true", "false"}
  /\ enabled = ReadEnabled(thoughtStored)
  /\ blocks = [id \in BlockIds |-> NoBlock]
  /\ debounce = FALSE
  /\ clicked = {}
  /\ timers = 0
  /\ dirty = FALSE
  /\ pass = FALSE

\* a callback that never finds a timer pending
Throttled_Never(pending_) == FALSE

\* line 102: if (this._pending) return
Throttled(pending_) == pending_

\* the observer callback (lines 101-109) on one batch of mutation records:
\* it starts a 100 ms timer unless one is pending
ObserverBatch(T) ==
  IF Throttled(T.pending) THEN [T EXCEPT !.dirty = TRUE]
  ELSE [pending |-> TRUE, timers |-> T.timers + 1, dirty |-> TRUE]

ThrottleState == [pending |-> debounce, timers |-> timers, dirty |-> dirty]

SetThrottle(T) ==
  /\ debounce' = T.pending
  /\ timers' = T.timers
  /\ dirty' = T.dirty

\* the host adds a block to a response; the observer callback (lines 101-109)
\* arms the 100 ms timer unless it is armed
HostAddBlock(id, label) ==
  /\ ~blocks[id].present
  /\ blocks' = [blocks EXCEPT ![id] = [NoBlock EXCEPT !.present = TRUE, !.label = label]]
  /\ SetThrottle(ObserverBatch(ThrottleState))
  /\ UNCHANGED <<exceptThought, thoughtStored, enabled, clicked, pass>>

\* the host adds an element right after a block
HostAddSibling(id, kind) ==
  /\ blocks[id].present
  /\ kind # "none"
  /\ blocks[id].next # kind
  /\ blocks[id].next # "content"
  /\ blocks' = [blocks EXCEPT ![id].next = kind]
  /\ SetThrottle(ObserverBatch(ThrottleState))
  /\ UNCHANGED <<exceptThought, thoughtStored, enabled, clicked, pass>>

\* the 100 ms timer fires (lines 104-108)
DebounceFires ==
  /\ timers > 0
  /\ SetThrottle([pending |-> FALSE, timers |-> timers - 1, dirty |-> FALSE])
  /\ pass' = ~pass
  /\ blocks' = autoToggle(enabled, blocks)
  /\ UNCHANGED <<exceptThought, thoughtStored, enabled, clicked>>

\* the user clicks the summary of a block: the click listener of lines
\* 173-179, if #autoToggle has put one on this summary, and then the
\* browser's toggling of the details element
SummaryClick(id) ==
  /\ blocks[id].present
  /\ blocks' = [blocks EXCEPT
                  ![id].userInteracted = @ \/ blocks[id].tracked,
                  ![id].autoExpanded = @ /\ ~blocks[id].tracked,
                  ![id].open = ~@]
  /\ clicked' = clicked \cup {id}
  /\ UNCHANGED <<exceptThought, thoughtStored, enabled, debounce, timers, dirty, pass>>

\* the menu entry's click listener (line 222): #setState(!this.enabled)
\* (lines 129-134)
ToggleEnabled ==
  /\ enabled' = ~enabled
  /\ thoughtStored' = StringifyFlag(~enabled)
  /\ UNCHANGED <<exceptThought, blocks, debounce, clicked, timers, dirty, pass>>

\* the page is loaded anew: a new instance (lines 85-93) in a fresh page
Reload ==
  /\ enabled' = ReadEnabled(thoughtStored)
  /\ blocks' = [id \in BlockIds |-> NoBlock]
  /\ debounce' = FALSE
  /\ clicked' = {}
  /\ timers' = 0
  /\ dirty' = FALSE
  /\ UNCHANGED <<exceptThought, thoughtStored, pass>>

InitThought ==
  /\ SorterIdle
  /\ TweaksIdle
  /\ location_search = NoSearch
  /\ LoaderIdle /\ BundleIdle /\ QuoteIdle /\ TagsIdle
  /\ ThoughtInit

NextThought ==
  \/ \E id \in BlockIds : \E label \in SummaryLabels : HostAddBlock(id, label)
  \/ \E id \in BlockIds : \E kind \in SiblingKinds : HostAddSibling(id, kind)
  \/ DebounceFires
  \/ \E id \in BlockIds : SummaryClick(id)
  \/ ToggleEnabled
  \/ Reload

SpecThought == InitThought /\ [][NextThought]_vars

(***************************************************************************)
(* The observer of the auto-thought toggle on a page where the "More       *)
(* actions" menu may be open inside the observed container: a pass that    *)
(* finds no menu entry of its own injects one (line 107, #injectButton),   *)
(* and the observer is told of the new child after the timer's callback    *)
(* has returned.  The timer fires if it is pending.                        *)
(***************************************************************************)
DebounceFiresAndInjects ==
  /\ timers > 0
  /\ SetThrottle(ObserverBatch([pending |-> FALSE, timers |-> timers - 1, dirty |-> FALSE]))
  /\ pass' = ~pass
  /\ blocks' = autoToggle(enabled, blocks)
  /\ UNCHANGED <<exceptThought, thoughtStored, enabled, clicked>>

TimerFires == DebounceFires \/ DebounceFiresAndInjects

NextObserver ==
  \/ \E id \in BlockIds : \E label \in SummaryLabels : HostAddBlock(id, label)
  \/ \E id \in BlockIds : \E kind \in SiblingKinds : HostAddSibling(id, kind)
  \/ DebounceFires
  \/ DebounceFiresAndInjects
  \/ \E id \in BlockIds : SummaryClick(id)
  \/ ToggleEnabled

SpecObserver == InitThought /\ [][NextObserver]_vars /\ WF_vars(TimerFires)

(***************************************************************************)
(* Vocabulary: a step in which the timer fires and #autoToggle runs (the   *)
(* blocks of the page stay the same ones).                                 *)
(***************************************************************************)
PassStep ==
  /\ debounce /\ ~debounce'
  /\ \A id \in BlockIds : blocks'[id].present = blocks[id].present

(***************************************************************************)
(* C16  Manual interaction wins: an auto-toggle pass leaves the open /     *)
(* closed state of every block whose summary the user has clicked as it    *)
(* is.  The code only knows of clicks made after a pass has put its        *)
(* listener on the summary, so this fails.                                 *)
(***************************************************************************)
C16_ManualWins ==
  [][PassStep =>
       \A id \in clicked : blocks[id].present => blocks'[id].open = blocks[id].open]_vars

(***************************************************************************)
(* C17  Open then collapse: after every auto-toggle pass made while the    *)
(* feature is enabled, a block labelled Thinking whose summary the user    *)
(* has not clicked is open iff its next sibling is not response content;   *)
(* so a collapsed block is not left open by a later pass.                  *)
(***************************************************************************)
C17_OpenThenCollapse ==
  [][(PassStep /\ enabled) =>
       \A id \in BlockIds \ clicked :
         (blocks[id].present /\ blocks[id].label = "Thinking...") =>
           (blocks'[id].open <=> blocks[id].next # "content")]_vars

\* after a pass: one block collapsed in front of the response content, the
\* other open with nothing after it
C17_Witness ==
  /\ enabled /\ ~debounce /\ clicked = {}
  /\ blocks["b1"].present /\ blocks["b1"].tracked /\ blocks["b1"].label = "Thinking..."
  /\ blocks["b1"].next = "content" /\ ~blocks["b1"].open
  /\ blocks["b2"].present /\ blocks["b2"].tracked /\ blocks["b2"].label = "Thinking..."
  /\ blocks["b2"].next = "actions" /\ blocks["b2"].open

(***************************************************************************)
(* C18  Persisted preference: the flag is true when nothing is stored;     *)
(* once something is stored it is the JSON text of the flag, so a new      *)
(* instance starts with the flag as it is; and a pass made while the flag  *)
(* is false changes no block.                                              *)
(***************************************************************************)
C18_StoredIsFlag ==
  /\ thoughtStored = "missing" => enabled = TRUE
  /\ thoughtStored # "missing" => thoughtStored = (IF enabled THEN "true" ELSE "false")

Letters == {"x", "m", "l", "c", "o", "d", "e"}

TagChars == Letters \cup {"X", "9", "-", "_", " "}

\* 'code' (lines 112 and 303)
Code == <<"c", "o", "d", "e">>

\* String.prototype.toLowerCase (line 104)
ToLowerCase(s) == [i \in 1..Len(s) |-> IF s[i] = "X" THEN "x" ELSE s[i]]

\* String.prototype.replace(/[S]+/g, to): every maximal run of characters of
\* the set S becomes the one character `to`
RECURSIVE ReplaceRuns(_, _, _)
ReplaceRuns(s, S, to) ==
  IF s = <<>> THEN <<>>
  ELSE IF Head(s) \notin S THEN <<Head(s)>> \o ReplaceRuns(Tail(s), S, to)
  ELSE IF Len(s) > 1 /\ s[2] \in S THEN ReplaceRuns(Tail(s), S, to)
  ELSE <<to>> \o ReplaceRuns(Tail(s), S, to)

\* clean.replace(/^_+|_+$/g, '') (line 110)
RECURSIVE TrimUnderscores(_)
TrimUnderscores(s) ==
  IF s = <<>> THEN <<>>
  ELSE IF Head(s) = "_" THEN TrimUnderscores(Tail(s))
  ELSE IF s[Len(s)] = "_" THEN TrimUnderscores(SubSeq(s, 1, Len(s) - 1))
  ELSE s

\* a test for the reserved prefix that never finds it
StartsWithXml_Never(s) == FALSE

\* clean.startsWith('xml') (line 113)
StartsWithXml(s) == Len(s) >= 3 /\ SubSeq(s, 1, 3) = <<"x", "m", "l">>

\* XmlTagCreator.sanitize (lines 102-115)
XmlTagCreator_sanitize(tag, trim) ==
  LET replaced == ReplaceRuns(ToLowerCase(tag), TagChars \ (Letters \cup {"9", "_", "-"}), "_")
      collapsed == ReplaceRuns(replaced, {"_"}, "_")
      c == IF trim THEN TrimUnderscores(collapsed) ELSE collapsed
  IN IF c = <<>> \/ c = Code THEN <<>>
     ELSE IF StartsWithXml(c) \/ c[1] \notin Letters \cup {"_"} THEN <<"_">> \o c
     ELSE c

\* CONFIG.MAX_RECENTS
MAX_RECENTS == 10

\* loadRecents (lines 139-142), for what saveRecents has stored
loadRecents(raw) ==
  IF raw.kind = "missing" \/ JSON_parse(raw).threw \/ JSON_parse(raw).val.t = "null"
  THEN <<>>
  ELSE JSON_parse(raw).val.items

\* saveRecents (lines 143-145)
saveRecents(list) == JSON_stringify(list)

\* a pushRecent that does not take the tag out of the old list
pushRecent_NoFilter(list, tag) ==
  IF tag = <<>> THEN list
  ELSE SubSeq(<<tag>> \o list, 1, Min(Len(list) + 1, MAX_RECENTS))

\* pushRecent (lines 146-151), the new this.state.recent
pushRecent(list, tag) ==
  IF tag = <<>> THEN list
  ELSE LET q == <<tag>> \o Remove(list, tag)
       IN SubSeq(q, 1, Min(Len(q), MAX_RECENTS))

\* a full list and a nearly full list stored by earlier inserts
TenTags ==
  << <<"x">>, <<"m">>, <<"l">>, <<"c">>, <<"o">>, <<"d">>, <<"e">>,
     <<"x", "m">>, <<"m", "l">>, <<"l", "x">> >>

RecentsAtStart ==
  {Raw("missing", NullVal), saveRecents(TenTags), saveRecents(Tail(TenTags))}

\* what the user types into the tag field before inserting
RawTags ==
  {<<>>, <<"X">>, <<"e">>, <<" ", "l", "x", " ">>, <<"9">>, <<"x", "m", "l">>, Code}

\* the sanitizer is not in use
SanitizeIdle ==
  /\ tagInput = <<>>
  /\ trimEdges = TRUE
  /\ clean = <<>>
  /\ sanitized = 0

\* the constructor (lines 125-136)
RecentInit ==
  /\ recentStored \in RecentsAtStart
  /\ recent = loadRecents(recentStored)
  /\ lastInserted = <<>>
  /\ SanitizeIdle

\* doInsert (lines 300-304): nothing without content to wrap; otherwise the
\* sanitized tag, or 'code', goes to pushRecent, which saves the list
Insert(raw, hasContent) ==
  /\ IF hasContent
     THEN LET xmlTag == IF XmlTagCreator_sanitize(raw, TRUE) # <<>>
                        THEN XmlTagCreator_sanitize(raw, TRUE) ELSE Code
          IN /\ recent' = pushRecent(recent, xmlTag)
             /\ recentStored' = saveRecents(pushRecent(recent, xmlTag))
             /\ lastInserted' = xmlTag
     ELSE UNCHANGED <<recent, recentStored, lastInserted>>
  /\ UNCHANGED <<exceptTags, tagInput, trimEdges, clean, sanitized>>

\* clearBtn.onclick (lines 215-221); the button is there when the list is
\* not empty
Clear ==
  /\ recent # <<>>
  /\ recent' = <<>>
  /\ recentStored' = saveRecents(<<>>)
  /\ lastInserted' = <<>>
  /\ UNCHANGED <<exceptTags, tagInput, trimEdges, clean, sanitized>>

\* the page is loaded anew: a new instance reads the list and has inserted
\* nothing yet
ReloadRecents ==
  /\ recent' = loadRecents(recentStored)
  /\ lastInserted' = <<>>
  /\ UNCHANGED <<exceptTags, recentStored, tagInput, trimEdges, clean, sanitized>>

InitRecent ==
  /\ SorterIdle
  /\ TweaksIdle
  /\ location_search = NoSearch
  /\ LoaderIdle /\ BundleIdle /\ QuoteIdle /\ ThoughtIdle
  /\ RecentInit

NextRecent ==
  \/ \E raw \in RawTags : \E hasContent \in BOOLEAN : Insert(raw, hasContent)
  \/ Clear
  \/ ReloadRecents

SpecRecent == InitRecent /\ [][NextRecent]_vars

\* sanitize alone: every string of up to MaxTagLen characters, in both
\* modes, sanitized and then sanitized again
Sanitize ==
  /\ sanitized = 0
  /\ clean' = XmlTagCreator_sanitize(tagInput, trimEdges)
  /\ sanitized' = 1
  /\ UNCHANGED <<exceptTags, recentStored, recent, lastInserted, tagInput, trimEdges>>

SanitizeAgain ==
  /\ sanitized = 1
  /\ clean' = XmlTagCreator_sanitize(clean, trimEdges)
  /\ sanitized' = 2
  /\ UNCHANGED <<exceptTags, recentStored, recent, lastInserted, tagInput, trimEdges>>

InitSanitize ==
  /\ SorterIdle
  /\ TweaksIdle
  /\ location_search = NoSearch
  /\ LoaderIdle /\ BundleIdle /\ QuoteIdle /\ ThoughtIdle
  /\ recentStored = Raw("missing", NullVal)
  /\ recent = <<>>
  /\ lastInserted = <<>>
  /\ tagInput \in SeqsUpTo(TagChars, MaxTagLen)
  /\ trimEdges \in BOOLEAN
  /\ clean = <<>>
  /\ sanitized = 0

NextSanitize == Sanitize \/ SanitizeAgain

SpecSanitize == InitSanitize /\ [][NextSanitize]_vars

(***************************************************************************)
(* C19  Recent tags: the list never holds more than 10 names nor a name    *)
(* twice; after an insert the inserted tag is first; the stored value is   *)
(* the JSON text of the list (nothing may be stored while the list is      *)
(* still empty); and an insert leaves the other names in their previous    *)
(* relative order.                                                         *)
(***************************************************************************)
C19_ListIsWellFormed ==
  /\ Len(recent) <= 10
  /\ NoRepeats(recent)
  /\ lastInserted # <<>> => (recent # <<>> /\ recent[1] = lastInserted)
  /\ \/ recentStored = Raw("json", ArrayVal(recent))
     \/ recentStored.kind = "missing" /\ recent = <<>>

C19_OthersKeepOrder ==
  (recent' # recent /\ recent' # <<>>) =>
    \A a, b \in Range(recent') \ {recent'[1]} :
      /\ a \in Range(recent)
      /\ Precedes(recent', a, b) => Precedes(recent, a, b)

C20_IsName(s) ==
  \/ s = <<>>
  \/ /\ \A i \in 1..Len(s) : s[i] \in {"x", "m", "l", "c", "o", "d", "e", "9", "-", "_"}
     /\ s[1] \in {"x", "m", "l", "c", "o", "d", "e", "_"}
     /\ ~(Len(s) >= 3 /\ s[1] = "x" /\ s[2] = "m" /\ s[3] = "l")

C20_Sanitised ==
  /\ [](sanitized >= 1 => C20_IsName(clean))
  /\ [][(sanitized = 1 /\ sanitized' = 2) => clean' = clean]_vars

\* a string that had to be changed in every way, sanitized twice
C20_Witness ==
  /\ sanitized = 2
  /\ tagInput = <<" ", "X", "m", "l">>
  /\ clean = <<"_", "x", "m", "l">>

(***************************************************************************)
(***************************************************************************)
(* Further properties of the reorder engine (Sorter, lines 530-608).       *)
(***************************************************************************)
(***************************************************************************)

(***************************************************************************)
(* C22  Placeholder placement: a pointer-move at height Y puts the         *)
(* placeholder next to the first row in list order, other than the dragged *)
(* row, whose top is above Y and whose bottom is below Y in the layout the *)
(* move has scrolled to: directly before it when Y is above the row's      *)
(* middle, directly after it otherwise, nothing else changing place; with  *)
(* no such row the children of the list stay as they were.                 *)
(***************************************************************************)
C22_Placed(y) ==
  LET l == drag.list
      ch == children[l]
      new == children'[l]
      others == SelectSeq(ch, LAMBDA i : i > 0 /\ i # drag.row)
      rect == [k \in 1..Len(others) |->
                 RowRect(l, others[k], inDoc, ch, scrollTop'[l], style', rowTop', phHeight)]
      hits == {k \in 1..Len(others) : rect[k].top < y /\ y < rect[k].bottom}
  IN IF hits = {} THEN new = ch
     ELSE LET first == CHOOSE k \in hits : \A j \in hits : k <= j
              item == others[first]
          IN /\ SelectSeq(new, LAMBDA i : i # drag.ph) = SelectSeq(ch, LAMBDA i : i # drag.ph)
             /\ \E k \in 1..(Len(new) - 1) :
                  IF 2 * y < rect[first].top + rect[first].bottom
                  THEN new[k] = drag.ph /\ new[k + 1] = item
                  ELSE new[k] = item /\ new[k + 1] = drag.ph

\* a pointer-move step: the session stays as it is while no node is added
\* to or taken from the page; the pointer is where the row's top was put
\* plus the offset of the grab
C22_MoveStep ==
  /\ drag # NoDrag /\ drag' = drag
  /\ pending = <<>> /\ pending' = <<>>
  /\ inDoc' = inDoc

C22_PlaceholderPlacement ==
  [][C22_MoveStep => C22_Placed(rowTop'[drag.row] + drag.offY)]_vars

\* row A is held with the pointer on the middle of row C, which the move
\* scrolled up: the placeholder has gone from A's place to just after C
C22_Witness ==
  /\ drag # NoDrag
  /\ drag.row = 1
  /\ children["L1"] = <<1, 2, 3, drag.ph>>
  /\ rowTop[1] + drag.offY = 190

(***************************************************************************)
(* C23  Release restores the row: after a pointer-up the dragged row does  *)
(* not carry the dragging class and carries none of the inline style       *)
(* properties the pick-up set (width, position, z-index, left, top,        *)
(* pointer-events); and when the placeholder still stands where the        *)
(* pick-up put it, directly before the row, the release leaves the rows in *)
(* the order they had.  #up resets position, left, top, width and          *)
(* pointer-events but not z-index, so this fails at the first release.     *)
(***************************************************************************)
C23_ReleaseRestoresRow ==
  [][UpStep =>
       LET l == drag.list
           r == drag.row
           ch == children[l]
       IN /\ ~dragging'[r]
          /\ style'[r] \cap {"width", "position", "zIndex", "left", "top", "pointerEvents"} = {}
          /\ (\E k \in 1..(Len(ch) - 1) : ch[k] = drag.ph /\ ch[k + 1] = r)
               => children'[l] = SelectSeq(ch, LAMBDA i : i # drag.ph)
    ]_vars

(***************************************************************************)
(* The engine under the pointer with a storage that may refuse a write:    *)
(* localStorage.setItem throws (the quota is used up), the exception       *)
(* leaves Store.save, #save and #up, and lines 586-587 of #up do not run.  *)
(***************************************************************************)
\* an #up whose line 587 ran although #save threw
DragAfterFailedSave_Reset(d) == NoDrag

\* this.drag after an #up that #save left with an exception: line 587 was
\* not reached
DragAfterFailedSave(d) == d

\* Sorter.#up when localStorage.setItem throws: lines 581-584 have run
UpThrows ==
  LET row == drag.row
      list == drag.list
      ch == ReplaceWith(children[list], drag.ph, row)
      st == [style EXCEPT ![row] = @ \ ClearedOnUp]
  IN /\ onpointerup
     /\ pending = <<>>
     /\ children' = [children EXCEPT ![list] = ch]
     /\ dragging' = [dragging EXCEPT ![row] = FALSE]
     /\ style' = st
     /\ rowTop' = [rowTop EXCEPT ![row] = 0]
     /\ scrollTop' = [scrollTop EXCEPT ![list] =
                        SetScrollTop(@, MaxScroll(list, inDoc, ch, st, phHeight))]
     /\ drag' = DragAfterFailedSave(drag)
     /\ UNCHANGED <<besideSorter, stored, inDoc, rendered, pending, escaped, sortAttach,
                    hasHandle, handles, applied, phHeight, onpointermove, onpointerup>>

\* pointer heights on the first row, on the last row visible and in the
\* margin at the bottom of the list
QuotaPointerYs == {130, 170, 190}

NextQuota ==
  \/ OpenMenu
  \/ ObserverCallback
  \/ \E row \in Rows : Down(row)
  \/ \E y \in QuotaPointerYs : Move(y)
  \/ Up
  \/ UpThrows

SpecQuota == InitDrag /\ [][NextQuota]_vars

(***************************************************************************)
(* C24  Handler pairing: in every state document.onpointermove and         *)
(* document.onpointerup are both installed or both absent, and they are    *)
(* installed exactly when this.drag is not empty; also after a pointer-up  *)
(* in which the write to the storage failed.                               *)
(***************************************************************************)
C24_HandlersPaired ==
  /\ onpointermove = onpointerup
  /\ onpointermove <=> drag # NoDrag

\* a pointer-up has put the row back and failed to store the order: the
\* session and both handlers are still there
C24_Witness ==
  /\ drag # NoDrag
  /\ onpointermove /\ onpointerup
  /\ ~dragging[drag.row]
  /\ "position" \notin style[drag.row]
  /\ drag.ph \notin Range(children[drag.list])
  /\ stored = Raw("missing", NullVal)

(***************************************************************************)
(* C25  Storage is written only at drag end: a step changes the stored     *)
(* value only if it is a pointer-up, and a pointer-up leaves a JSON array  *)
(* there; attaching a list (with the saved order applied), pointer-down    *)
(* and pointer-move leave the stored value as it is.  #applySaved, which   *)
(* alone calls Store.get, runs only in the observer's callback.            *)
(***************************************************************************)
C25_AttachStep == \E l \in Lists : sortAttach'[l] /\ ~sortAttach[l]
C25_DownStep == drag' # drag /\ drag' # NoDrag
C25_MoveStep == drag # NoDrag /\ drag' = drag

C25_WrittenOnlyAtDragEnd ==
  [][/\ stored' # stored => UpStep
     /\ UpStep => (stored'.kind = "json" /\ stored'.val.t = "array")
     /\ (C25_AttachStep \/ C25_DownStep \/ C25_MoveStep) => stored' = stored
     /\ (\E l \in Lists : applied'[l] > applied[l]) => (pending # <<>> /\ pending' = <<>>)
    ]_vars

\* the order a drag stored has been read and applied to a list element the
\* host rendered afterwards: its rows were never dragged
C25_Witness ==
  /\ stored = Raw("json", ArrayVal(<<"B", "A", "C">>))
  /\ sortAttach["L1"] /\ applied["L1"] = 1
  /\ rendered["L1"] = <<1, 2, 3>>
  /\ children["L1"] = <<2, 1, 3>>
  /\ \A r \in {1, 2, 3} : style[r] = {}
  /\ drag = NoDrag

(***************************************************************************)
(* C26  Single flight: never more than one processAndSend run is in        *)
(* progress, and isProcessing is true exactly while one is (so it is false *)
(* again after a run that sent, that returned early or that threw); and a  *)
(* call made while isProcessing is true leaves the textbox, the labels and *)
(* the send button alone.                                                  *)
(***************************************************************************)
C26_OneRun ==
  /\ runs <= 1
  /\ isProcessing <=> runs = 1
  /\ sendTimer <=> runs = 1

C26_SingleFlight ==
  /\ [](C26_OneRun)
  /\ [][(isProcessing /\ intercepted' # intercepted) =>
          (textbox' = textbox /\ labels' = labels /\ sends' = sends)]_vars

\* during the wait of a run a quote was added and a second call was made,
\* which returned; before that, calls had ended early and by an exception
C26_Witness ==
  /\ isProcessing /\ runs = 1
  /\ labels # <<>>
  /\ intercepted = 4
  /\ textbox = NewText(<< <<"q1">> >>, <<>>)

(***************************************************************************)
(* C28  Throttled observer: never more than one 100 ms timer is pending,   *)
(* and one is pending exactly while _pending is set; a step that is no     *)
(* pass and starts with a timer pending leaves the number of timers as it  *)
(* is, whatever batches it delivers; and whenever a batch has been         *)
(* observed, a timer is pending and a pass runs later.                     *)
(***************************************************************************)
C28_OneTimer ==
  /\ timers <= 1
  /\ debounce <=> timers = 1
  /\ dirty => timers = 1

C28_ThrottledObserver ==
  /\ [](C28_OneTimer)
  /\ [][(debounce /\ pass' = pass) => timers' = timers]_vars
  /\ \A b \in BOOLEAN : (dirty /\ pass = b) ~> (pass # b)

\* a second batch arrived while the timer of the first was pending, after
\* an earlier pass had already run
C28_Witness ==
  /\ pass /\ dirty /\ debounce /\ timers = 1
  /\ blocks["b1"].present /\ blocks["b1"].tracked
  /\ blocks["b2"].present /\ ~blocks["b2"].tracked /\ blocks["b2"].next = "content"

(***************************************************************************)
(***************************************************************************)
(* src/SINGLE-FILE-USAGE.md, lines 233-1652: the UI tweaks script.         *)
(* Settings (getSetting, lines 328-345; saveSetting, lines 1306-1334).  A  *)
(* stored item is the sequence of its characters; a JavaScript value is a  *)
(* record with its type in t.                                              *)
(***************************************************************************)
(***************************************************************************)
JsBool(b) == [t |-> "boolean", b |-> b, s |-> <<>>, n |-> 0]
JsString(s) == [t |-> "string", b |-> FALSE, s |-> s, n |-> 0]
JsNumber(n) == [t |-> "number", b |-> FALSE, s |-> <<>>, n |-> n]
JsNull == [t |-> "null", b |-> FALSE, s |-> <<>>, n |-> 0]

Quote == "\""
Backslash == "\\"

\* the characters of the strings that are saved and of the items other
\* scripts left in the storage
SettingChars == {"a", "8", " ", Quote, Backslash}

DigitChars == <<"0", "1", "2", "3", "4", "5", "6", "7", "8", "9">>
IsDigit(c) == \E i \in 1..10 : DigitChars[i] = c
DigitValue(c) == (CHOOSE i \in 1..10 : DigitChars[i] = c) - 1

TextTrue == <<"t", "r", "u", "e">>
TextFalse == <<"f", "a", "l", "s", "e">>
TextNull == <<"n", "u", "l", "l">>

\* JSON.stringify of a non-negative integer
RECURSIVE Decimal(_)
Decimal(n) ==
  IF n < 10 THEN <<DigitChars[n + 1]>>
  ELSE Decimal(n \div 10) \o <<DigitChars[(n % 10) + 1]>>

\* a JSON.stringify that copies the characters of a string as they are
Escape_Nothing(s) == s

\* JSON.stringify of the characters of a string: quotation mark and
\* backslash get a backslash in front
RECURSIVE Escape(_)
Escape(s) ==
  IF s = <<>> THEN <<>>
  ELSE (IF Head(s) \in {Quote, Backslash} THEN <<Backslash, Head(s)>> ELSE <<Head(s)>>)
       \o Escape(Tail(s))

\* JSON.stringify(value) (line 1311)
JSONText_stringify(v) ==
  CASE v.t = "boolean" -> (IF v.b THEN TextTrue ELSE TextFalse)
    [] v.t = "number" -> Decimal(v.n)
    [] v.t = "string" -> <<Quote>> \o Escape(v.s) \o <<Quote>>
    [] OTHER -> TextNull

\* white space around a JSON text, and String.prototype.trim
RECURSIVE TrimSpaces(_)
TrimSpaces(t) ==
  IF t = <<>> THEN <<>>
  ELSE IF Head(t) = " " THEN TrimSpaces(Tail(t))
  ELSE IF t[Len(t)] = " " THEN TrimSpaces(SubSeq(t, 1, Len(t) - 1))
  ELSE t

AllDigits(t) == t # <<>> /\ \A i \in 1..Len(t) : IsDigit(t[i])

\* the number a sequence of digits denotes
RECURSIVE NumberOfDigits(_)
NumberOfDigits(t) ==
  IF t = <<>> THEN 0
  ELSE 10 * NumberOfDigits(SubSeq(t, 1, Len(t) - 1)) + DigitValue(t[Len(t)])

\* the characters between the quotation marks of a JSON string: ok is FALSE
\* when they are no JSON (a bare quotation mark, a backslash in front of
\* anything but a quotation mark or a backslash)
RECURSIVE Unescape(_)
Unescape(t) ==
  IF t = <<>> THEN [ok |-> TRUE, s |-> <<>>]
  ELSE IF Head(t) = Quote THEN [ok |-> FALSE, s |-> <<>>]
  ELSE IF Head(t) = Backslash
       THEN IF Len(t) >= 2 /\ t[2] \in {Quote, Backslash}
            THEN LET rest == Unescape(SubSeq(t, 3, Len(t)))
                 IN [ok |-> rest.ok, s |-> <<t[2]>> \o rest.s]
            ELSE [ok |-> FALSE, s |-> <<>>]
       ELSE LET rest == Unescape(Tail(t))
            IN [ok |-> rest.ok, s |-> <<Head(t)>> \o rest.s]

\* JSON.parse(value) (line 333) on the texts of this model: literals,
\* non-negative integers without a leading zero, strings
JSONText_parse(text) ==
  LET t == TrimSpaces(text)
      inner == Unescape(SubSeq(t, 2, Len(t) - 1))
  IN IF t = TextTrue THEN [threw |-> FALSE, val |-> JsBool(TRUE)]
     ELSE IF t = TextFalse THEN [threw |-> FALSE, val |-> JsBool(FALSE)]
     ELSE IF t = TextNull THEN [threw |-> FALSE, val |-> JsNull]
     ELSE IF AllDigits(t) /\ (Len(t) = 1 \/ t[1] # "0")
          THEN [threw |-> FALSE, val |-> JsNumber(NumberOfDigits(t))]
     ELSE IF Len(t) >= 2 /\ t[1] = Quote /\ t[Len(t)] = Quote /\ inner.ok
          THEN [threw |-> FALSE, val |-> JsString(inner.s)]
     ELSE [threw |-> TRUE, val |-> JsNull]

\* the keys of the model (settingsKeys, lines 291-308)
SettingKeys == {"tweak_customPageTitle", "tweak_customFaviconData"}

NoItem == [present |-> FALSE, text |-> <<>>]
Item(text) == [present |-> TRUE, text |-> text]

\* getSetting(key, defaultValue) (lines 328-345)
getSetting(store, key, defaultValue) ==
  LET value == store[key].text
  IN IF ~store[key].present THEN defaultValue
     ELSE IF ~JSONText_parse(value).threw THEN JSONText_parse(value).val
     ELSE IF value = TextTrue THEN JsBool(TRUE)
     ELSE IF value = TextFalse THEN JsBool(FALSE)
     ELSE IF AllDigits(TrimSpaces(value)) THEN JsNumber(NumberOfDigits(TrimSpaces(value)))
     ELSE IF value # <<>> THEN JsString(value)
     ELSE defaultValue

\* lines 1308-1312 of saveSetting: the storage after the call
StoreAfterSave(store, key, value) ==
  [store EXCEPT ![key] = IF value = JsNull THEN NoItem
                         ELSE Item(JSONText_stringify(value))]

\* what the settings panel hands to saveSetting: the state of a checkbox
\* (line 838), the value of a text or colour input (lines 859-1033, with
\* '' for the page title), the parsed font size when it is at least 8
\* (lines 1073-1079), null from the Clear buttons
SavedValues ==
  {JsBool(TRUE), JsBool(FALSE), JsNumber(8), JsNumber(10), JsNumber(120), JsNull}
  \cup {JsString(s) : s \in SeqsUpTo(SettingChars, MaxSettingLen)}

\* the defaults the script passes to getSetting
Defaults == {JsBool(FALSE), JsNull, JsString(<<>>)}

\* what the storage may hold under a key when the script starts
ItemsAtStart ==
  {NoItem} \cup {Item(t) : t \in SeqsUpTo(SettingChars, MaxSettingLen)}

NotSaved == [done |-> FALSE, val |-> JsNull]

(***************************************************************************)
(* The favicon (applyCustomFavicon, lines 1630-1650; faviconObserver,      *)
(* lines 1484-1529).  An icon is the href of a link[rel="icon"]; a record  *)
(* of the observer's queue tells whether the callback finds a rel="icon"   *)
(* link in it.                                                             *)
(***************************************************************************)
FaviconKey == "tweak_customFaviconData"

DefaultIcon == [kind |-> "/favicon.ico", data |-> <<>>]
HostIcon == [kind |-> "host", data |-> <<>>]
CustomIcon(data) == [kind |-> "data", data |-> data]

\* a disconnect() after which the observer still observes
Disconnect_KeepsObserving(O) == O

\* MutationObserver.disconnect(): the observer stops observing and its
\* record queue is emptied
Disconnect(O) == [observing |-> FALSE, records |-> <<>>]

\* MutationObserver.observe(document.head, ...)
Observe(O) == [O EXCEPT !.observing = TRUE]

\* a mutation of the head: a record is queued when the observer observes
Notify(O, record) ==
  IF O.observing THEN [O EXCEPT !.records = Append(@, record)] ELSE O

\* links.forEach(link => link.parentNode.removeChild(link)) (line 1634): one
\* mutation for every link removed
RECURSIVE RemoveEach(_, _)
RemoveEach(O, n) == IF n = 0 THEN O ELSE RemoveEach(Notify(O, "icon"), n - 1)

\* JavaScript's truthiness of a setting, and the text an href is set to
Truthy(v) ==
  \/ v.t = "boolean" /\ v.b
  \/ v.t = "number" /\ v.n # 0
  \/ v.t = "string" /\ v.s # <<>>
HrefText(v) == IF v.t = "string" THEN v.s ELSE JSONText_stringify(v)

\* applyCustomFavicon (lines 1630-1650): the icons of the document and the
\* observer after the call
applyCustomFavicon(store, links, O) ==
  LET faviconData == getSetting(store, FaviconKey, JsNull)
      removed == RemoveEach(Disconnect(O), Len(links))
      favicon == IF Truthy(faviconData) /\ faviconData # JsString(TextNull)
                 THEN CustomIcon(HrefText(faviconData))
                 ELSE DefaultIcon
  IN [icons |-> <<favicon>>, observer |-> Observe(Notify(removed, "icon"))]

SetFavicon(F) ==
  /\ icons' = F.icons
  /\ faviconObserver' = F.observer
  /\ faviconCalls' = ~faviconCalls

\* the data URLs the file reader hands to saveSetting (line 1135)
FaviconData == {<<"a">>, <<"8", "a">>}

\* the state after the script has run (lines 1365-1373, 1484-1529):
\* initializeTweaks has applied the favicon, the observer observes the head
\* and the timer of line 1491 is pending
TweaksInit ==
  /\ tweakSaved = [k \in SettingKeys |-> NotSaved]
  /\ icons = applyCustomFavicon(tweakStore, <<>>, [observing |-> FALSE, records |-> <<>>]).icons
  /\ faviconObserver = [observing |-> TRUE, records |-> <<>>]
  /\ faviconTimers = 1
  /\ faviconCalls = FALSE

\* saveSetting(key, value) (lines 1306-1334), called from a handler of the
\* settings panel: the storage is written and, for the favicon's key, the
\* favicon is applied
SaveSetting(key, value) ==
  /\ faviconObserver.records = <<>>
  /\ tweakStore' = StoreAfterSave(tweakStore, key, value)
  /\ tweakSaved' = [tweakSaved EXCEPT ![key] = [done |-> TRUE, val |-> value]]
  /\ IF key = FaviconKey
     THEN SetFavicon(applyCustomFavicon(StoreAfterSave(tweakStore, key, value), icons,
                                        faviconObserver))
     ELSE UNCHANGED <<icons, faviconObserver, faviconCalls>>
  /\ UNCHANGED <<exceptTweaks, faviconTimers>>

InitSettings ==
  /\ SorterIdle
  /\ location_search = NoSearch
  /\ LoaderIdle /\ BundleIdle /\ QuoteIdle /\ ThoughtIdle /\ TagsIdle
  /\ tweakStore \in [SettingKeys -> ItemsAtStart]
  /\ TweaksInit

NextSettings ==
  \E key \in SettingKeys : \E value \in SavedValues : SaveSetting(key, value)

SpecSettings == InitSettings /\ [][NextSettings]_vars

(***************************************************************************)
(* The favicon while the host page changes the icons of its head and its   *)
(* body, and the user picks and clears a custom favicon.                   *)
(***************************************************************************)
\* the host appends a link[rel="icon"] of its own to the head
HostAddsIcon ==
  /\ Len(icons) < MaxIcons
  /\ Len(faviconObserver.records) < MaxPending
  /\ faviconTimers < MaxFaviconTimers
  /\ icons' = Append(icons, HostIcon)
  /\ faviconObserver' = Notify(faviconObserver, "icon")
  /\ UNCHANGED <<exceptTweaks, tweakStore, tweakSaved, faviconTimers, faviconCalls>>

\* the host removes an icon link from the head
HostRemovesIcon(i) ==
  /\ i \in 1..Len(icons)
  /\ Len(faviconObserver.records) < MaxPending
  /\ faviconTimers < MaxFaviconTimers
  /\ icons' = SubSeq(icons, 1, i - 1) \o SubSeq(icons, i + 1, Len(icons))
  /\ faviconObserver' = Notify(faviconObserver, "icon")
  /\ UNCHANGED <<exceptTweaks, tweakStore, tweakSaved, faviconTimers, faviconCalls>>

\* the host sets the href of an icon link
HostSetsHref(i) ==
  /\ i \in 1..Len(icons)
  /\ icons[i] # HostIcon
  /\ Len(faviconObserver.records) < MaxPending
  /\ faviconTimers < MaxFaviconTimers
  /\ icons' = [icons EXCEPT ![i] = HostIcon]
  /\ faviconObserver' = Notify(faviconObserver, "icon")
  /\ UNCHANGED <<exceptTweaks, tweakStore, tweakSaved, faviconTimers, faviconCalls>>

\* the host appends something else to the head (a style sheet)
HostAddsOther ==
  /\ Len(faviconObserver.records) < MaxPending
  /\ faviconObserver' = Notify(faviconObserver, "other")
  /\ UNCHANGED <<exceptTweaks, tweakStore, tweakSaved, icons, faviconTimers, faviconCalls>>

\* the callback of faviconObserver (lines 1492-1523) on the records queued
FaviconObserverCallback ==
  /\ faviconObserver.records # <<>>
  /\ faviconObserver' = [faviconObserver EXCEPT !.records = <<>>]
  /\ faviconTimers' =
       IF \E i \in 1..Len(faviconObserver.records) : faviconObserver.records[i] = "icon"
       THEN faviconTimers + 1
       ELSE faviconTimers
  /\ UNCHANGED <<exceptTweaks, tweakStore, tweakSaved, icons, faviconCalls>>

\* a timer of line 1491 or 1522 fires: applyCustomFavicon
FaviconTimerFires ==
  /\ faviconTimers > 0
  /\ faviconObserver.records = <<>>
  /\ faviconTimers' = faviconTimers - 1
  /\ SetFavicon(applyCustomFavicon(tweakStore, icons, faviconObserver))
  /\ UNCHANGED <<exceptTweaks, tweakStore, tweakSaved>>

\* the host changes the body: the callback of the body's observer (lines
\* 1375-1379) calls applyCustomFavicon, before faviconObserver's callback
\* when both have records
BodyObserverCallback ==
  /\ SetFavicon(applyCustomFavicon(tweakStore, icons, faviconObserver))
  /\ UNCHANGED <<exceptTweaks, tweakStore, tweakSaved, faviconTimers>>

InitFavicon ==
  /\ SorterIdle
  /\ location_search = NoSearch
  /\ LoaderIdle /\ BundleIdle /\ QuoteIdle /\ ThoughtIdle /\ TagsIdle
  /\ tweakStore \in [SettingKeys -> {NoItem} \cup {Item(JSONText_stringify(JsString(d))) :
                                                      d \in FaviconData}]
  /\ TweaksInit

NextFavicon ==
  \/ \E value \in {JsNull} \cup {JsString(d) : d \in FaviconData} :
       SaveSetting(FaviconKey, value)
  \/ HostAddsIcon
  \/ \E i \in 1..MaxIcons : HostRemovesIcon(i)
  \/ \E i \in 1..MaxIcons : HostSetsHref(i)
  \/ HostAddsOther
  \/ FaviconObserverCallback
  \/ FaviconTimerFires
  \/ BodyObserverCallback

SpecFavicon == InitFavicon /\ [][NextFavicon]_vars

C27_FaviconReplaced ==
  [][faviconCalls' # faviconCalls =>
       /\ Len(icons') = 1
       /\ IF tweakStore'["tweak_customFaviconData"].present
          THEN /\ icons'[1].kind = "data"
               /\ tweakStore'["tweak_customFaviconData"].text
                    = <<"\"">> \o icons'[1].data \o <<"\"">>
          ELSE icons'[1] = [kind |-> "/favicon.ico", data |-> <<>>]
       /\ faviconObserver'.observing
       /\ faviconObserver'.records = <<>>
       /\ faviconTimers' <= faviconTimers
    ]_vars

\* the user picked a favicon, the host put its own icon next to it, the
\* observer's callback started a timer, and the timer's call replaced both
C27_Witness ==
  /\ tweakSaved["tweak_customFaviconData"].done
  /\ icons = << [kind |-> "data", data |-> <<"8", "a">>] >>
  /\ faviconTimers = 0
  /\ faviconObserver.records = <<>>
  /\ ~faviconCalls

====
